---------------------------- MODULE Spec2Model ----------------------------
(***************************************************************************)
(* Model of the GoDo backend's real-time chat path and its moderation      *)
(* filter: messaging/middleware.py, messaging/consumers.py,                *)
(* messaging/views.py, messaging/models.py and moderation/utils.py.        *)
(*                                                                         *)
(* Texts are sequences of one-character strings.  Every consumer handles   *)
(* one event at a time (a handler runs to its end before the next event of *)
(* that connection is dispatched), and different connections interleave at *)
(* every await that follows a state change.                                *)
(***************************************************************************)
EXTENDS Integers, Sequences, FiniteSets, TLC

VARIABLES
    conversations,  \* Conversation table: id -> row (exists, participants, ...)
    messages,       \* Message table: a set of rows
    nextMessageId,  \* the Message table's auto-increment sequence
    bannedWords,    \* BannedWord table: a sequence of rows (word, is_regex, is_active)
    now,            \* the wall clock read by auto_now / auto_now_add
    connState,      \* per connection: connecting, authorizing, joined, closed, crashed
    connToken,      \* per connection: the token of the query string
    connConv,       \* per connection: conversation_id of the URL route
    connUser,       \* per connection: scope['user'] (Anonymous or a user id)
    pc,             \* per connection: where its running handler is suspended
    pending,        \* per connection: the handler's local, the event it will group_send
    groups,         \* channel layer: conversation id -> set of member channels
    mailbox,        \* channel layer: per channel, the events not yet dispatched
    delivered,      \* per connection: the frames written to the client socket
    nframes,        \* websocket frames the server has taken so far
    lastOp,         \* history: the operation of the last step, and its outcome
    nextConvId,     \* the Conversation table's auto-increment sequence
    blocks,         \* BlockedUser table: a set of <<blocker, blocked>>
    activities,     \* Activity table: id -> row
    participations, \* ActivityParticipation table: a set of rows
    nextParticipationId,  \* the ActivityParticipation table's sequence
    req,            \* per HTTP worker: the respond call it is in, with what it loaded
    filterCall,     \* history: the last call of the Content Filter and its result
    inactive,       \* User table: the ids of the rows with is_active false
    reports,        \* ReportedContent table: a set of rows
    nextReportId,   \* the ReportedContent table's auto-increment sequence
    creating,       \* per HTTP worker: the create-conversation call it is in
    activityText    \* Activity table, columns title and description: id -> row

vars == <<conversations, messages, nextMessageId, bannedWords, now, connState,
          connToken, connConv, connUser, pc, pending, groups, mailbox,
          delivered, nframes, lastOp, nextConvId, blocks, activities,
          participations, nextParticipationId, req, filterCall, inactive,
          reports, nextReportId, creating, activityText>>

dbVars == <<conversations, messages, nextMessageId, bannedWords, now>>
connVars == <<connState, connToken, connConv, connUser>>
layerVars == <<groups, mailbox, delivered>>
activityVars == <<activities, participations, nextParticipationId, req>>
accountVars == <<inactive, reports, nextReportId, creating>>
extVars == <<accountVars, activityText>>
appVars == <<nextConvId, blocks, activityVars, filterCall, extVars>>

---------------------------------------------------------------------------
(* Bounds of the model.                                                    *)

MaxMessages == 3    \* Message rows created in one behaviour
MaxFrames == 2      \* websocket frames taken in one behaviour
MaxClock == 1       \* ticks of the wall clock in one behaviour
MaxConversations == 4   \* Conversation rows there are in one behaviour
MaxCapacity == 3    \* the largest max_participants of the activity
MaxGroup == 2       \* the largest group_member_count of an application
MaxBannedWords == 2     \* rows of the BannedWord table
MaxReports == 2         \* ReportedContent rows created in one behaviour
MaxActivities == 2      \* rows of the Activity table

Users == {1, 2, 3}
Anonymous == 0
ConvIds == {1, 2}
Conns == {"a", "b", "c"}
\* Connections are named in the order in which they arrive.
Earlier(c) == IF c = "a" THEN {} ELSE IF c = "b" THEN {"a"} ELSE {"a", "b"}

---------------------------------------------------------------------------
(* Texts and character classes.  A text is a sequence of one-character     *)
(* strings; the alphabet is the ASCII part the patterns talk about, and    *)
(* CCedilla stands for the one non-ASCII letter of the redaction tokens.   *)

Digit == {"0", "1", "2", "3", "4", "5", "6", "7", "8", "9"}
LowerCase == {"a", "b", "c", "d", "e", "f", "g", "h", "i", "j", "k", "l", "m",
              "n", "o", "p", "q", "r", "s", "t", "u", "v", "w", "x", "y", "z"}
UpperCase == {"A", "B", "C", "D", "E", "F", "G", "H", "I", "J", "K", "L", "M",
              "N", "O", "P", "Q", "R", "S", "T", "U", "V", "W", "X", "Y", "Z"}
Letter == LowerCase \cup UpperCase
Whitespace == {" ", "\t", "\n", "\r"}          \* \s, and what str.strip() strips
CCedilla == "c-cedilla"
Punctuation == {"@", ".", "_", "-", "+", "%", "(", ")", "[", "]", "*", "/", "$",
                "'", ":", ",", "!", "?"}
Alphabet == Letter \cup Digit \cup Whitespace \cup Punctuation \cup {CCedilla}

LowerOf == [c \in UpperCase |->
    CASE c = "A" -> "a" [] c = "B" -> "b" [] c = "C" -> "c" [] c = "D" -> "d"
      [] c = "E" -> "e" [] c = "F" -> "f" [] c = "G" -> "g" [] c = "H" -> "h"
      [] c = "I" -> "i" [] c = "J" -> "j" [] c = "K" -> "k" [] c = "L" -> "l"
      [] c = "M" -> "m" [] c = "N" -> "n" [] c = "O" -> "o" [] c = "P" -> "p"
      [] c = "Q" -> "q" [] c = "R" -> "r" [] c = "S" -> "s" [] c = "T" -> "t"
      [] c = "U" -> "u" [] c = "V" -> "v" [] c = "W" -> "w" [] c = "X" -> "x"
      [] c = "Y" -> "y" [] c = "Z" -> "z"]

\* str.lower() on one character
lower(c) == IF c \in UpperCase THEN LowerOf[c] ELSE c

\* the characters that equal c when case is ignored (re.IGNORECASE)
SameLetter(c) == IF c \in Letter
                   THEN {d \in Letter : lower(d) = lower(c)}
                   ELSE {c}

\* str.strip(): leading and trailing whitespace removed
RECURSIVE lstrip(_)
lstrip(s) == IF s # <<>> /\ Head(s) \in Whitespace THEN lstrip(Tail(s)) ELSE s

RECURSIVE rstrip(_)
rstrip(s) == IF s # <<>> /\ s[Len(s)] \in Whitespace
               THEN rstrip(SubSeq(s, 1, Len(s) - 1))
               ELSE s

strip(s) == rstrip(lstrip(s))

---------------------------------------------------------------------------
(* Python's re on these texts: a backtracking matcher.  A pattern is a     *)
(* tree of character sets, concatenations and greedy repetitions.          *)
(* MatchEnds gives, in the order the backtracking engine tries them, the   *)
(* positions at which a match of the pattern starting at position i ends;  *)
(* the first one is the match re reports.                                  *)

Unbounded == -1

CharSet(S) == [k |-> "set", s |-> S]
Lit(c) == CharSet({c})
LitI(c) == CharSet(SameLetter(c))
Cat(rs) == [k |-> "cat", rs |-> rs]
Rep(r, lo, hi) == [k |-> "rep", r |-> r, lo |-> lo, hi |-> hi]
Opt(r) == Rep(r, 0, 1)
Star(r) == Rep(r, 0, Unbounded)
Plus(r) == Rep(r, 1, Unbounded)
\* a literal word, matched with re.IGNORECASE
WordI(w) == Cat([j \in 1..Len(w) |-> LitI(w[j])])

\* how many characters of s, from position i on, lie in the set S
run_length(S, s, i) ==
    CHOOSE n \in 0..(Len(s) + 1 - i) :
        /\ \A k \in 0..(n - 1) : s[i + k] \in S
        /\ i + n > Len(s) \/ s[i + n] \notin S

Least(a, b) == IF a <= b THEN a ELSE b

\* a greedy repetition of a character set, of which most characters follow
\* at position i: the longest run first, then each shorter one down to lo
SetRepEnds(lo, i, most) == [j \in 1..(most - lo + 1) |-> i + most - j + 1]

RECURSIVE MatchEnds(_, _, _), CatEnds(_, _, _, _), EndsOver(_, _, _, _),
          RepEnds(_, _, _, _), RepOver(_, _, _, _, _, _)

MatchEnds(r, s, i) ==
    CASE r.k = "set" -> IF i <= Len(s) /\ s[i] \in r.s THEN <<i + 1>> ELSE <<>>
      [] r.k = "cat" -> CatEnds(r.rs, 1, s, <<i>>)
      [] r.k = "rep" ->
           IF r.r.k = "set"
             THEN SetRepEnds(r.lo, i,
                             IF r.hi = Unbounded
                               THEN run_length(r.r.s, s, i)
                               ELSE Least(r.hi, run_length(r.r.s, s, i)))
             ELSE RepEnds(r, 0, s, i)

\* the parts of a concatenation from part k on, tried from each of the
\* positions the parts before it can end at, in the order of those
CatEnds(rs, k, s, ends) ==
    IF k > Len(rs) \/ ends = <<>>
      THEN ends
      ELSE CatEnds(rs, k + 1, s, EndsOver(rs[k], s, ends, 1))

EndsOver(r, s, ends, j) ==
    IF j > Len(ends)
      THEN <<>>
      ELSE MatchEnds(r, s, ends[j]) \o EndsOver(r, s, ends, j + 1)

\* a greedy repetition of any other pattern
RepEnds(r, n, s, i) ==
    (IF r.hi = Unbounded \/ n < r.hi
       THEN RepOver(r, n, s, i, MatchEnds(r.r, s, i), 1)     \* one more, greedily
       ELSE <<>>)
      \o (IF n >= r.lo THEN <<i>> ELSE <<>>)                 \* or stop here

RepOver(r, n, s, i, ends, j) ==
    IF j > Len(ends)
      THEN <<>>
      ELSE (IF ends[j] > i THEN RepEnds(r, n + 1, s, ends[j]) ELSE <<>>)
             \o RepOver(r, n, s, i, ends, j + 1)

\* the first of the ends, or 0 when there is none
FirstEnd(ends) == IF ends = <<>> THEN 0 ELSE Head(ends)

\* the end of the match at position i, or 0 when the pattern does not match there
MatchAt(r, s, i) == FirstEnd(MatchEnds(r, s, i))

\* the positions of s at which the pattern matches (Len(s) + 1: at the end)
match_starts(r, s) == {j \in 1..(Len(s) + 1) : MatchAt(r, s, j) # 0}

\* the first of the positions from i on, or 0 when there is none: where the
\* scan of re.findall and re.sub, which moves on by one character where the
\* pattern does not match, finds its next match
next_start(starts, i) ==
    IF \A j \in starts : j < i
      THEN 0
      ELSE CHOOSE j \in starts : j >= i /\ \A k \in starts : k >= i => j <= k

\* re.findall(r, s) from position i on: the matched substrings, left to
\* right; b is where the next match begins (0: no more) and e where it ends
\* (b: an empty match)
RECURSIVE findall_from(_, _, _, _), findall_at(_, _, _, _),
          findall_step(_, _, _, _, _)
findall_from(r, s, starts, i) == findall_at(r, s, starts, next_start(starts, i))

findall_at(r, s, starts, b) ==
    IF b = 0 THEN <<>> ELSE findall_step(r, s, starts, b, MatchAt(r, s, b))

findall_step(r, s, starts, b, e) ==
    IF e = b THEN <<<<>>>> \o findall_from(r, s, starts, b + 1)
    ELSE <<SubSeq(s, b, e - 1)>> \o findall_from(r, s, starts, e)

re_findall(r, s) == findall_from(r, s, match_starts(r, s), 1)

\* re.search(r, s): whether the pattern matches anywhere
re_search(r, s) == \E i \in 1..(Len(s) + 1) : MatchAt(r, s, i) # 0

\* the character at position i, as a text (empty past the end)
CharAt(s, i) == IF i <= Len(s) THEN <<s[i]>> ELSE <<>>

\* the characters of s from position i up to, not including, position j
Between(s, i, j) == IF i < j THEN SubSeq(s, i, j - 1) ELSE <<>>

\* re.sub(r, repl, s) from position i on: the text up to the next match is
\* kept, the match replaced; b and e as in findall_step
RECURSIVE sub_from(_, _, _, _, _), sub_at(_, _, _, _, _, _),
          sub_step(_, _, _, _, _, _)
sub_from(r, repl, s, starts, i) ==
    sub_at(r, repl, s, starts, i, next_start(starts, i))

sub_at(r, repl, s, starts, i, b) ==
    IF b = 0
      THEN Between(s, i, Len(s) + 1)
      ELSE Between(s, i, b) \o sub_step(r, repl, s, starts, b, MatchAt(r, s, b))

sub_step(r, repl, s, starts, b, e) ==
    IF e = b THEN repl \o CharAt(s, b) \o sub_from(r, repl, s, starts, b + 1)
    ELSE repl \o sub_from(r, repl, s, starts, e)

re_sub(r, repl, s) == sub_from(r, repl, s, match_starts(r, s), 1)

---------------------------------------------------------------------------
(* moderation/utils.py: the content filter.                                *)

Alnum == Letter \cup Digit
PhoneSep == {"-", "."} \cup Whitespace          \* [-.\s]
D(lo, hi) == Rep(CharSet(Digit), lo, hi)         \* \d{lo,hi}
Spaces == Star(CharSet(Whitespace))              \* \s*

PHONE_PATTERNS == <<
    \* \+?90?\s*\d{3}\s*\d{3}\s*\d{2}\s*\d{2}
    Cat(<<Opt(Lit("+")), Lit("9"), Opt(Lit("0")), Spaces, D(3, 3), Spaces,
          D(3, 3), Spaces, D(2, 2), Spaces, D(2, 2)>>),
    \* \+?\d{1,3}[-.\s]?\d{3}[-.\s]?\d{3}[-.\s]?\d{4}
    Cat(<<Opt(Lit("+")), D(1, 3), Opt(CharSet(PhoneSep)), D(3, 3),
          Opt(CharSet(PhoneSep)), D(3, 3), Opt(CharSet(PhoneSep)), D(4, 4)>>),
    \* \d{10,11}
    D(10, 11),
    \* \(\d{3}\)\s*\d{3}[-.\s]?\d{4}
    Cat(<<Lit("("), D(3, 3), Lit(")"), Spaces, D(3, 3),
          Opt(CharSet(PhoneSep)), D(4, 4)>>) >>

\* [a-zA-Z0-9._%+-]+@[a-zA-Z0-9.-]+\.[a-zA-Z]{2,}
EMAIL_PATTERN ==
    Cat(<<Plus(CharSet(Alnum \cup {".", "_", "%", "+", "-"})), Lit("@"),
          Plus(CharSet(Alnum \cup {".", "-"})), Lit("."),
          Rep(CharSet(Letter), 2, Unbounded)>>)

HandleChar == CharSet(Alnum \cup {"_"})         \* [a-zA-Z0-9_]

SOCIAL_PATTERNS == <<
    \* @[a-zA-Z0-9_]{3,}
    Cat(<<Lit("@"), Rep(HandleChar, 3, Unbounded)>>),
    \* instagram\.com/[a-zA-Z0-9_]+
    Cat(<<WordI(<<"i", "n", "s", "t", "a", "g", "r", "a", "m", ".", "c", "o", "m", "/">>),
          Plus(HandleChar)>>),
    \* twitter\.com/[a-zA-Z0-9_]+
    Cat(<<WordI(<<"t", "w", "i", "t", "t", "e", "r", ".", "c", "o", "m", "/">>),
          Plus(HandleChar)>>),
    \* facebook\.com/[a-zA-Z0-9.]+
    Cat(<<WordI(<<"f", "a", "c", "e", "b", "o", "o", "k", ".", "c", "o", "m", "/">>),
          Plus(CharSet(Alnum \cup {"."}))>>),
    \* t\.me/[a-zA-Z0-9_]+
    Cat(<<WordI(<<"t", ".", "m", "e", "/">>), Plus(HandleChar)>>) >>

PhoneToken == <<"[", "t", "e", "l", "e", "f", "o", "n", " ",
                "g", "i", "z", "l", "e", "n", "d", "i", "]">>
EmailToken == <<"[", "e", "m", "a", "i", "l", " ",
                "g", "i", "z", "l", "e", "n", "d", "i", "]">>
SocialToken == <<"[", "s", "o", "s", "y", "a", "l", " ", "m", "e", "d", "y", "a", " ",
                 "g", "i", "z", "l", "e", "n", "d", "i", "]">>
BannedToken == <<"[", "i", CCedilla, "e", "r", "i", "k", " ",
                 "g", "i", "z", "l", "e", "n", "d", "i", "]">>

\* The patterns of passes 1 to 3, in the order the filter goes through
\* them, each with the type it records and the token it writes.
PatternRows(pats, kind, token) ==
    [j \in 1..Len(pats) |-> [pat |-> pats[j], kind |-> kind, token |-> token]]

PATTERN_ROWS ==
    PatternRows(PHONE_PATTERNS, "phone_number", PhoneToken)
      \o PatternRows(<<EMAIL_PATTERN>>, "email", EmailToken)
      \o PatternRows(SOCIAL_PATTERNS, "social_media", SocialToken)

\* "violations.append(...); filtered = re.sub(...)"; st is the pair of
\* locals (filtered, violations)
record_matches(row, st, matches) ==
    [filtered |-> re_sub(row.pat, row.token, st.filtered),
     violations |-> Append(st.violations,
                           [type |-> row.kind, matches |-> matches])]

\* The "for pattern in ..." loops of passes 1 to 3, from row k on:
\* "matches = re.findall(...)", then "if matches: ..." and the next pattern.
RECURSIVE apply_patterns(_, _, _), next_pattern(_, _, _, _)
apply_patterns(rows, k, st) ==
    IF k > Len(rows)
      THEN st
      ELSE next_pattern(rows, k, st, re_findall(rows[k].pat, st.filtered))

next_pattern(rows, k, st, matches) ==
    IF matches # <<>>
      THEN apply_patterns(rows, k + 1, record_matches(rows[k], st, matches))
      ELSE apply_patterns(rows, k + 1, st)

\* better_profanity: the words of the censor list the model knows, the
\* characters it takes as parts of a word, and its censor().
ProfanityWords == {<<"d", "a", "m", "n">>}
WordChars == Alnum \cup {"@", "$", "*", "'"}
CensorStars == <<"*", "*", "*", "*">>

lower_text(s) == [j \in 1..Len(s) |-> lower(s[j])]

\* the end of the maximal run of word characters that starts at i
word_end(s, i) ==
    CHOOSE j \in i..(Len(s) + 1) :
        /\ j = Len(s) + 1 \/ s[j] \notin WordChars
        /\ \A k \in i..(j - 1) : s[k] \in WordChars

\* the positions at which a word of s begins
word_starts(s) ==
    {b \in 1..Len(s) : s[b] \in WordChars /\ (b = 1 \/ s[b - 1] \notin WordChars)}

\* the positions at which a word of the censor list begins
censored_starts(s) ==
    {b \in word_starts(s) :
        lower_text(SubSeq(s, b, word_end(s, b) - 1)) \in ProfanityWords}

\* from position i on: the text up to the next word of the censor list is
\* kept and the word replaced; b is where that word begins (0: no more)
RECURSIVE censor_from(_, _, _), censor_at(_, _, _, _)
censor_from(s, starts, i) == censor_at(s, starts, i, next_start(starts, i))

censor_at(s, starts, i, b) ==
    IF b = 0
      THEN Between(s, i, Len(s) + 1)
      ELSE Between(s, i, b) \o CensorStars
             \o censor_from(s, starts, word_end(s, b))

profanity_censor(s) == censor_from(s, censored_starts(s), 1)

\* The words of the banned-word table are literal texts or, with is_regex,
\* pattern sources.  re.compile of a source: "." is any character but a
\* newline, a character followed by "*" repeats, anything else is itself;
\* a source that starts with "*" does not compile (re.error).
BadPattern == [k |-> "error"]

compile_atom(ch) == IF ch = "." THEN CharSet(Alphabet \ {"\n"}) ELSE LitI(ch)

RECURSIVE compile_from(_, _)
compile_from(w, i) ==
    IF i > Len(w)
      THEN <<>>
      ELSE IF i + 1 <= Len(w) /\ w[i + 1] = "*"
        THEN <<Star(compile_atom(w[i]))>> \o compile_from(w, i + 2)
        ELSE <<compile_atom(w[i])>> \o compile_from(w, i + 1)

re_compile(w) == IF w # <<>> /\ w[1] = "*" THEN BadPattern ELSE Cat(compile_from(w, 1))

\* word.lower() in filtered.lower()
contains_text(w, s) ==
    \E i \in 1..(Len(s) - Len(w) + 1) :
        lower_text(SubSeq(s, i, i + Len(w) - 1)) = lower_text(w)

\* The loop over the active banned words, from row k on.  A pattern that
\* does not compile raises inside the try block: the except clause ends
\* the loop, with what the earlier rows did kept.
\* "violations.append(...); filtered = re.sub(...)" of one banned word
redact_banned(r, word, st) ==
    [filtered |-> re_sub(r, BannedToken, st.filtered),
     violations |-> Append(st.violations,
                           [type |-> "banned_word", matches |-> <<word>>])]

RECURSIVE apply_banned(_, _, _), apply_banned_regex(_, _, _, _)
apply_banned(rows, k, st) ==
    IF k > Len(rows)
      THEN st
      ELSE IF rows[k].is_regex
        THEN apply_banned_regex(rows, k, st, re_compile(rows[k].word))
        ELSE IF contains_text(rows[k].word, st.filtered)
          THEN apply_banned(rows, k + 1,
                            redact_banned(WordI(rows[k].word), rows[k].word, st))
          ELSE apply_banned(rows, k + 1, st)

apply_banned_regex(rows, k, st, r) ==
    IF r.k = "error" THEN st
    ELSE IF re_search(r, st.filtered)
      THEN apply_banned(rows, k + 1, redact_banned(r, rows[k].word, st))
      ELSE apply_banned(rows, k + 1, st)

\* BannedWord.objects.filter(is_active=True).values_list('word', 'is_regex')
RECURSIVE active_rows(_)
active_rows(rows) ==
    IF rows = <<>> THEN <<>>
    ELSE (IF Head(rows).is_active THEN <<Head(rows)>> ELSE <<>>)
           \o active_rows(Tail(rows))

\* filter_ugc_content(text) with the banned-word table as it is now; store_up
\* is whether the table can be read (FALSE: the query raises).
\* 1. to 3.: the phone, email and social media patterns
pattern_passes(st) == apply_patterns(PATTERN_ROWS, 1, st)

\* 4. profanity; censored is profanity.censor(filtered)
profanity_pass(st, censored) ==
    IF st.filtered # censored
      THEN [filtered |-> censored,
            violations |-> Append(st.violations,
                                  [type |-> "profanity", matches |-> <<>>])]
      ELSE st

\* a pass 5 that has the rows although the table cannot be read
banned_pass_always(st, rows, store_up) == apply_banned(active_rows(rows), 1, st)

\* 5. the banned words of the table; a table that cannot be read raises
\* inside the try block and the pass is skipped
banned_pass(st, rows, store_up) ==
    IF store_up THEN apply_banned(active_rows(rows), 1, st) ELSE st

\* the dict the filter returns
filter_result(text, st) ==
    [filtered_text |-> st.filtered, original_text |-> text,
     is_clean |-> Len(st.violations) = 0, violations |-> st.violations]

\* "if profanity.contains_profanity(filtered)": the library compares the
\* text with its censored form
profanity_check(st) == profanity_pass(st, profanity_censor(st.filtered))

filter_ugc_content(text, rows, store_up) ==
    IF text = <<>>
      THEN [filtered_text |-> <<>>, original_text |-> <<>>,
            is_clean |-> TRUE, violations |-> <<>>]
      ELSE filter_result(text,
               banned_pass(profanity_check(pattern_passes(
                               [filtered |-> text, violations |-> <<>>])),
                           rows, store_up))

---------------------------------------------------------------------------
(* The database rows, tokens, frames and events of the chat path.          *)

NoMessage == [id |-> 0, sender |-> Anonymous, content |-> <<>>,
              is_filtered |-> FALSE, created_at |-> 0]

\* texts a client puts in a chat_message frame or an HTTP send
HiText == <<" ", "h", "i">>
HandleText == <<"@", "b", "o", "b">>
BlankText == <<" ", "\t">>
Contents == {BlankText, HiText, HandleText}

\* the "content" member of a chat_message frame: missing, a JSON string, or
\* a JSON value that is no string (a number, null, a list)
Text(t) == [kind |-> "text", text |-> t]
Absent == [kind |-> "absent", text |-> <<>>]
NotAString == [kind |-> "other", text |-> <<>>]

\* What the handshake's query string carries.  AccessToken(token) accepts
\* a token of kind "valid" and raises for one that is undecodable or expired.
UnknownUserId == Cardinality(Users) + 1     \* the id of no row of the user table
NoToken == [kind |-> "none", user_id |-> Anonymous]
Tokens == {NoToken,
           [kind |-> "garbage", user_id |-> Anonymous],
           [kind |-> "expired", user_id |-> 1]}
          \cup {[kind |-> "valid", user_id |-> u] : u \in Users \cup {UnknownUserId}}

\* A websocket frame, by what json.loads and data.get('type') make of it.
FrameKinds == {"chat_message", "typing", "read", "other_type", "not_json",
               "not_object"}
Frame(kind, content, is_typing) ==
    [kind |-> kind, content |-> content, is_typing |-> is_typing]
NoFrame == Frame("none", Absent, FALSE)
Frames == {Frame("chat_message", ct, FALSE) :
             ct \in {Text(t) : t \in Contents} \cup {Absent, NotAString}}
          \cup {Frame("typing", Absent, b) : b \in BOOLEAN}
          \cup {Frame(k, Absent, FALSE) :
                   k \in {"read", "other_type", "not_json", "not_object"}}

\* An event of the channel layer, and a frame written to a client.  origin
\* is history: the connection whose handler sent the event.
Event(type, message, user_id, is_typing, origin) ==
    [type |-> type, message |-> message, user_id |-> user_id,
     is_typing |-> is_typing, origin |-> origin]
NoEvent == Event("none", NoMessage, Anonymous, FALSE, "-")

\* The body of an HTTP request, by the fields the views read from it.
NoData == [participant_ids |-> <<>>, activity_id |-> 0, text |-> <<>>,
           participation |-> 0, action |-> "-", group_member_count |-> 0]

NoOp == [op |-> "init", conn |-> "-", user |-> Anonymous, conv |-> 0,
         frame |-> NoFrame, result |-> "-", updated |-> 0, data |-> NoData]
Op(op, conn, user, conv, frame, result, updated) ==
    [op |-> op, conn |-> conn, user |-> user, conv |-> conv,
     frame |-> frame, result |-> result, updated |-> updated, data |-> NoData]
\* the same for an HTTP call whose request body matters
OpData(op, user, conv, result, data) ==
    [op |-> op, conn |-> "-", user |-> user, conv |-> conv,
     frame |-> NoFrame, result |-> result, updated |-> 0, data |-> data]

\* Conversation.objects.filter(id=..., participants=user).exists()
check_participant(cv, user) ==
    conversations[cv].exists /\ user \in conversations[cv].participants

\* messaging/middleware.py get_user
get_user(token) ==
    IF token.kind = "valid" /\ token.user_id \in Users
      THEN token.user_id
      ELSE Anonymous

\* REST_FRAMEWORK of settings.py: JWTAuthentication resolves the token to a
\* user and refuses an inactive one, IsAuthenticated refuses everybody else
is_authenticated(user) == user \in Users /\ user \notin inactive

\* the filter without exclude(sender=user)
unread_for_any_sender(cv, user) ==
    {m \in messages : m.conversation = cv /\ ~m.is_read}

\* The rows "all unread messages of the conversation not sent by user".
unread_for(cv, user) ==
    {m \in messages : m.conversation = cv /\ ~m.is_read /\ m.sender # user}

\* an update of the first unread row only
mark_read_rows_first(cv, user) ==
    {IF m \in unread_for(cv, user) /\ \A x \in unread_for(cv, user) : m.id <= x.id
       THEN [m EXCEPT !.is_read = TRUE] ELSE m :
        m \in messages}

\* ....filter(is_read=False).exclude(sender=user).update(is_read=True)
mark_read_rows(cv, user) ==
    {IF m \in unread_for(cv, user) THEN [m EXCEPT !.is_read = TRUE] ELSE m :
        m \in messages}

\* a row whose content is the raw text whatever the filter found
new_message_raw_content(id, cv, user, content, result) ==
    [id |-> id, conversation |-> cv, sender |-> user,
     content |-> content,
     is_filtered |-> ~result.is_clean,
     original_content |-> IF ~result.is_clean THEN content ELSE <<>>,
     is_read |-> FALSE, created_at |-> now]

\* a row that keeps the raw text whatever the filter found
new_message_keep_original(id, cv, user, content, result) ==
    [id |-> id, conversation |-> cv, sender |-> user,
     content |-> IF ~result.is_clean THEN result.filtered_text ELSE content,
     is_filtered |-> ~result.is_clean,
     original_content |-> content,
     is_read |-> FALSE, created_at |-> now]

\* Message.objects.create(...) of the three write paths: the row made from
\* the filter's result
new_message(id, cv, user, content, result) ==
    [id |-> id, conversation |-> cv, sender |-> user,
     content |-> IF ~result.is_clean THEN result.filtered_text ELSE content,
     is_filtered |-> ~result.is_clean,
     original_content |-> IF ~result.is_clean THEN content ELSE <<>>,
     is_read |-> FALSE, created_at |-> now]

\* the dict save_message returns
message_data(m) ==
    [id |-> m.id, sender |-> m.sender, content |-> m.content,
     is_filtered |-> m.is_filtered, created_at |-> m.created_at]

\* group_send that leaves out the channel of the sending consumer
group_send_to_others(cv, event) ==
    [ch \in Conns |-> IF ch \in groups[cv] /\ ch # event.origin
                        THEN Append(mailbox[ch], event)
                        ELSE mailbox[ch]]

\* channel_layer.group_send(group, event): the event is put on the queue of
\* every channel that is in the group now
group_send(cv, event) ==
    [ch \in Conns |-> IF ch \in groups[cv] THEN Append(mailbox[ch], event)
                                            ELSE mailbox[ch]]

---------------------------------------------------------------------------
(* The initial state: two conversations, no message, nobody connected.     *)

\* the participants the two conversations start with
Participants0(cv) == IF cv = 1 THEN {1, 2} ELSE Users

\* every id the Conversation table can hold; ConvIds are the rows of Init
AllConvIds == 1 .. MaxConversations

NoConversation ==
    [exists |-> FALSE, participants |-> {}, conversation_type |-> "direct",
     activity |-> 0, created_at |-> 0, last_message_at |-> 0]

\* The one activity: created by user 1, nobody in it yet.
ActivityIds == {1}

NewActivity(cap, start) ==
    [creator |-> 1, max_participants |-> cap, current_participants |-> 0,
     status |-> "active", is_active |-> TRUE,
     start_time |-> start, has_end |-> FALSE, end_time |-> 0]

NoActivity == NewActivity(0, 0)

NoParticipation ==
    [id |-> 0, activity |-> 0, user |-> Anonymous, status |-> "none",
     group_member_count |-> 0]

\* HTTP workers that can be inside a respond call at the same time
Requests == {"r1", "r2"}

NoRequest ==
    [pc |-> "idle", user |-> Anonymous, action |-> "-",
     activity_id |-> 0, activity |-> NoActivity, participation |-> NoParticipation]

\* what filter_ugc_content returns
FilterResult(filtered, original, clean, violations) ==
    [filtered_text |-> filtered, original_text |-> original,
     is_clean |-> clean, violations |-> violations]

NoCall ==
    [text |-> <<>>, store_up |-> TRUE,
     result |-> FilterResult(<<>>, <<>>, TRUE, <<>>)]

BannedWords0 ==
    <<[word |-> <<"b", "a", "d">>, is_regex |-> FALSE, is_active |-> TRUE]>>

InitChat ==
    /\ conversations =
          [cv \in AllConvIds |->
              IF cv \in ConvIds
                THEN [exists |-> TRUE,
                      participants |-> Participants0(cv),
                      conversation_type |-> IF cv = 1 THEN "direct" ELSE "activity",
                      activity |-> IF cv = 1 THEN 0 ELSE 1,
                      created_at |-> 0, last_message_at |-> 0]
                ELSE NoConversation]
    /\ nextConvId = Cardinality(ConvIds) + 1
    /\ messages = {}
    /\ nextMessageId = 1
    /\ now = 0
    /\ connState = [c \in Conns |-> "connecting"]
    /\ connToken = [c \in Conns |-> NoToken]
    /\ connConv = [c \in Conns |-> 0]
    /\ connUser = [c \in Conns |-> Anonymous]
    /\ pc = [c \in Conns |-> "idle"]
    /\ pending = [c \in Conns |-> NoEvent]
    /\ groups = [cv \in ConvIds |-> {}]
    /\ mailbox = [c \in Conns |-> <<>>]
    /\ delivered = [c \in Conns |-> <<>>]
    /\ nframes = 0
    /\ lastOp = NoOp
    /\ blocks = {}

InitActivity(cap, start) ==
    /\ activities = [a \in ActivityIds |-> NewActivity(cap, start)]
    /\ participations = {}
    /\ nextParticipationId = 1
    /\ req = [r \in Requests |-> NoRequest]

NoCreate == [pc |-> "idle", user |-> Anonymous, participant_ids |-> <<>>,
             activity_id |-> 0, text |-> <<>>]

\* every account active, no report filed, no create-conversation call under way
InitAccounts ==
    /\ inactive = {}
    /\ reports = {}
    /\ nextReportId = 1
    /\ creating = [r \in Requests |-> NoCreate]
    /\ activityText = <<[title |-> strip(HiText), description |-> strip(HiText)]>>

Init ==
    /\ InitChat
    /\ bannedWords = BannedWords0
    /\ InitActivity(MaxCapacity, MaxClock)
    /\ filterCall = NoCall
    /\ InitAccounts

---------------------------------------------------------------------------
(* messaging/middleware.py and ChatConsumer.connect / disconnect.          *)

\* JWTAuthMiddleware.__call__: scope['user'] from the token of the query string
JWTAuthMiddleware(c, token, cv) ==
    /\ connState[c] = "connecting"
    /\ \A d \in Earlier(c) : connState[d] # "connecting"
    /\ connState' = [connState EXCEPT ![c] = "authorizing"]
    /\ connToken' = [connToken EXCEPT ![c] = token]
    /\ connConv' = [connConv EXCEPT ![c] = cv]
    /\ connUser' = [connUser EXCEPT ![c] =
                       IF token.kind # "none" THEN get_user(token) ELSE Anonymous]
    /\ lastOp' = Op("handshake", c, Anonymous, cv, NoFrame, "-", 0)
    /\ UNCHANGED <<dbVars, layerVars, pc, pending, nframes>>
    /\ UNCHANGED appVars

\* connect() without the participant check
may_join_any_user(c) == connUser[c] # Anonymous

\* whether connect() lets the connection in
may_join(c) ==
    /\ connUser[c] # Anonymous
    /\ check_participant(connConv[c], connUser[c])

\* ChatConsumer.connect
connect(c) ==
    /\ connState[c] = "authorizing"
    /\ IF may_join(c)
         THEN /\ groups' = [groups EXCEPT ![connConv[c]] = @ \cup {c}]
              /\ connState' = [connState EXCEPT ![c] = "joined"]
         ELSE /\ groups' = groups
              /\ connState' = [connState EXCEPT ![c] = "closed"]
    /\ lastOp' = Op("connect", c, connUser[c], connConv[c], NoFrame,
                    IF may_join(c) THEN "accepted" ELSE "rejected", 0)
    /\ UNCHANGED <<dbVars, connToken, connConv, connUser, pc, pending,
                   mailbox, delivered, nframes>>
    /\ UNCHANGED appVars

\* ChatConsumer.disconnect, run when the client goes away
disconnect(c) ==
    /\ connState[c] = "joined"
    /\ pc[c] = "idle"
    /\ groups' = [groups EXCEPT ![connConv[c]] = @ \ {c}]
    /\ connState' = [connState EXCEPT ![c] = "closed"]
    /\ lastOp' = Op("disconnect", c, connUser[c], connConv[c], NoFrame, "-", 0)
    /\ UNCHANGED <<dbVars, connToken, connConv, connUser, pc, pending,
                   mailbox, delivered, nframes>>
    /\ UNCHANGED appVars

---------------------------------------------------------------------------
(* ChatConsumer.receive and its handlers.  The variables a frame can       *)
(* change are conversations, messages, nextMessageId, connState, pc,       *)
(* pending, mailbox and lastOp; receive itself counts the frame.           *)

\* An exception other than JSONDecodeError leaves receive(): the consumer's
\* task ends with it and the server closes the socket.  disconnect() is not
\* run, so the channel stays in its group.
raise(c, frame, what) ==
    /\ connState' = [connState EXCEPT ![c] = "crashed"]
    /\ lastOp' = Op("receive", c, connUser[c], connConv[c], frame, what, 0)
    /\ UNCHANGED <<conversations, messages, nextMessageId, pc, pending, mailbox>>

\* A frame the handlers return from without doing anything.
drop(c, frame) ==
    /\ lastOp' = Op("receive", c, connUser[c], connConv[c], frame, "dropped", 0)
    /\ UNCHANGED <<conversations, messages, nextMessageId, connState, pc,
                   pending, mailbox>>

\* ChatConsumer.save_message on a conversation that exists: the row is
\* created from the filter's result, the conversation is saved (auto_now
\* sets last_message_at), and the handler goes on to group_send the dict.
create_and_return(c, frame, m) ==
    /\ nextMessageId <= MaxMessages
    /\ messages' = messages \cup {m}
    /\ nextMessageId' = nextMessageId + 1
    /\ conversations' = [conversations EXCEPT ![connConv[c]].last_message_at = now]
    /\ pc' = [pc EXCEPT ![c] = "group_send"]
    /\ pending' = [pending EXCEPT ![c] =
                      Event("chat_message", message_data(m), connUser[c], FALSE, c)]
    /\ lastOp' = Op("receive", c, connUser[c], connConv[c], frame, "saved", 0)
    /\ UNCHANGED <<connState, mailbox>>

save_message(c, frame, content) ==
    create_and_return(c, frame,
        new_message(nextMessageId, connConv[c], connUser[c], content,
                    filter_ugc_content(content, bannedWords, TRUE)))

\* a handler that swallows the failed save and goes on to the broadcast
broadcast_unsaved(c, frame, m) ==
    /\ pc' = [pc EXCEPT ![c] = "group_send"]
    /\ pending' = [pending EXCEPT ![c] =
                      Event("chat_message", message_data(m), connUser[c], FALSE, c)]
    /\ lastOp' = Op("receive", c, connUser[c], connConv[c], frame, "save_failed", 0)
    /\ UNCHANGED <<conversations, messages, nextMessageId, connState, mailbox>>

handle_content_broadcast_anyway(c, frame, content) ==
    IF content = <<>>
      THEN drop(c, frame)
      ELSE IF ~conversations[connConv[c]].exists
        THEN broadcast_unsaved(c, frame,
                 new_message(nextMessageId, connConv[c], connUser[c], content,
                             filter_ugc_content(content, bannedWords, TRUE)))
        ELSE save_message(c, frame, content)

\* ChatConsumer.handle_chat_message up to the await of group_send
\* "if not content: return", then save_message: Conversation.objects.get
\* raises DoesNotExist when the row is gone
handle_content(c, frame, content) ==
    IF content = <<>>
      THEN drop(c, frame)
      ELSE IF ~conversations[connConv[c]].exists
        THEN raise(c, frame, "save_failed")
        ELSE save_message(c, frame, content)

\* handle_chat_message without the strip()
handle_chat_message_unstripped(c, frame) ==
    IF frame.content.kind = "other"
      THEN raise(c, frame, "crashed")
      ELSE handle_content(c, frame, frame.content.text)

\* data.get('content', '').strip(); a JSON value that is no string has no strip()
handle_chat_message(c, frame) ==
    IF frame.content.kind = "other"
      THEN raise(c, frame, "crashed")
      ELSE handle_content(c, frame, strip(frame.content.text))

\* ChatConsumer.handle_typing
handle_typing(c, frame) ==
    /\ mailbox' = group_send(connConv[c],
                     Event("typing_indicator", NoMessage, connUser[c], frame.is_typing, c))
    /\ lastOp' = Op("receive", c, connUser[c], connConv[c], frame, "typing_sent", 0)
    /\ UNCHANGED <<conversations, messages, nextMessageId, connState, pc, pending>>

\* ChatConsumer.mark_messages_read on a conversation that exists
mark_messages_read(c, frame) ==
    /\ messages' = mark_read_rows(connConv[c], connUser[c])
    /\ pc' = [pc EXCEPT ![c] = "group_send"]
    /\ pending' = [pending EXCEPT ![c] =
                      Event("messages_read", NoMessage, connUser[c], FALSE, c)]
    /\ lastOp' = Op("receive", c, connUser[c], connConv[c], frame, "marked",
                    Cardinality(unread_for(connConv[c], connUser[c])))
    /\ UNCHANGED <<conversations, nextMessageId, connState, mailbox>>

\* ChatConsumer.handle_read up to the await of group_send
handle_read(c, frame) ==
    IF ~conversations[connConv[c]].exists
      THEN raise(c, frame, "read_failed")          \* Conversation.DoesNotExist
      ELSE mark_messages_read(c, frame)

\* ChatConsumer.receive: one text frame of a joined connection
receive(c, frame) ==
    /\ connState[c] = "joined"
    /\ pc[c] = "idle"
    /\ nframes < MaxFrames
    /\ nframes' = nframes + 1
    /\ CASE frame.kind = "not_json" -> drop(c, frame)      \* except JSONDecodeError
         [] frame.kind = "not_object" -> raise(c, frame, "crashed")  \* data.get
         [] frame.kind = "chat_message" -> handle_chat_message(c, frame)
         [] frame.kind = "typing" -> handle_typing(c, frame)
         [] frame.kind = "read" -> handle_read(c, frame)
         [] OTHER -> drop(c, frame)
    /\ UNCHANGED <<bannedWords, now, connToken, connConv, connUser, groups, delivered>>
    /\ UNCHANGED appVars

\* The group_send that ends handle_chat_message and handle_read.
handler_group_send(c) ==
    /\ connState[c] = "joined"
    /\ pc[c] = "group_send"
    /\ mailbox' = group_send(connConv[c], pending[c])
    /\ pc' = [pc EXCEPT ![c] = "idle"]
    /\ pending' = [pending EXCEPT ![c] = NoEvent]
    /\ lastOp' = Op("group_send", c, connUser[c], connConv[c], NoFrame,
                    pending[c].type, 0)
    /\ UNCHANGED <<dbVars, connVars, groups, delivered, nframes>>
    /\ UNCHANGED appVars

\* typing_indicator without the comparison of user ids
frames_for_echo(c, event) ==
    CASE event.type = "chat_message" -> <<event>>
      [] event.type = "typing_indicator" -> <<[event EXCEPT !.type = "typing"]>>
      [] event.type = "messages_read" -> <<[event EXCEPT !.type = "read"]>>

\* ChatConsumer.chat_message / typing_indicator / messages_read: what the
\* handler of a group event writes to the client socket
frames_for(c, event) ==
    CASE event.type = "chat_message" -> <<event>>
      [] event.type = "typing_indicator" ->
            IF event.user_id # connUser[c]
              THEN <<[event EXCEPT !.type = "typing"]>>
              ELSE <<>>
      [] event.type = "messages_read" -> <<[event EXCEPT !.type = "read"]>>

\* The consumer takes the next event of its channel and runs its handler.
dispatch(c) ==
    /\ connState[c] = "joined"
    /\ pc[c] = "idle"
    /\ mailbox[c] # <<>>
    /\ mailbox' = [mailbox EXCEPT ![c] = Tail(@)]
    /\ delivered' = [delivered EXCEPT ![c] = @ \o frames_for(c, Head(mailbox[c]))]
    /\ lastOp' = Op("dispatch", c, connUser[c], connConv[c], NoFrame,
                    Head(mailbox[c]).type, 0)
    /\ UNCHANGED <<dbVars, connVars, pc, pending, groups, nframes>>
    /\ UNCHANGED appVars

---------------------------------------------------------------------------
(* messaging/views.py, the admin's delete, and the clock.                  *)

\* SendMessageView.post.  The serializer's CharField trims the text and
\* rejects a blank one (400); a conversation the user is not in is a 404.
send_data(content) == [NoData EXCEPT !.text = content]

http_create(user, cv, content, m) ==
    /\ nextMessageId <= MaxMessages
    /\ messages' = messages \cup {m}
    /\ nextMessageId' = nextMessageId + 1
    /\ conversations' = [conversations EXCEPT ![cv].last_message_at = now]
    /\ lastOp' = OpData("http_send", user, cv, "201", send_data(content))

http_refuse(user, cv, content, status) ==
    /\ lastOp' = OpData("http_send", user, cv, status, send_data(content))
    /\ UNCHANGED <<conversations, messages, nextMessageId>>

http_send(user, cv, content) ==
    IF ~check_participant(cv, user) THEN http_refuse(user, cv, content, "404")
    ELSE IF content = <<>> THEN http_refuse(user, cv, content, "400")
    ELSE http_create(user, cv, content,
             new_message(nextMessageId, cv, user, content,
                         filter_ugc_content(content, bannedWords, TRUE)))

SendMessageView_post(user, cv, text) ==
    /\ is_authenticated(user)
    /\ http_send(user, cv, strip(text))
    /\ UNCHANGED <<bannedWords, now, connVars, pc, pending, layerVars, nframes>>
    /\ UNCHANGED appVars

\* MarkMessagesReadView.post: the response carries the number of rows updated
MarkMessagesReadView_post(user, cv) ==
    /\ is_authenticated(user)
    /\ IF ~check_participant(cv, user)
         THEN /\ lastOp' = Op("http_read", "-", user, cv, NoFrame, "404", 0)
              /\ messages' = messages
         ELSE /\ messages' = mark_read_rows(cv, user)
              /\ lastOp' = Op("http_read", "-", user, cv, NoFrame, "200",
                              Cardinality(unread_for(cv, user)))
    /\ UNCHANGED <<conversations, nextMessageId, bannedWords, now, connVars,
                   pc, pending, layerVars, nframes>>
    /\ UNCHANGED appVars

\* ConversationAdmin's delete: the row goes, and with it (on_delete=CASCADE
\* of Message.conversation) its messages
delete_conversation(cv) ==
    /\ conversations[cv].exists
    /\ conversations' = [conversations EXCEPT ![cv].exists = FALSE,
                                               ![cv].participants = {}]
    /\ messages' = {m \in messages : m.conversation # cv}
    /\ reports' = {r \in reports :
                      r.report_type = "message"
                      => \E m \in messages : m.id = r.target /\ m.conversation # cv}
    /\ lastOp' = Op("delete_conversation", "-", Anonymous, cv, NoFrame, "-", 0)
    /\ UNCHANGED <<nextMessageId, bannedWords, now, connVars, pc, pending,
                   layerVars, nframes>>
    /\ UNCHANGED <<nextConvId, blocks, activityVars, filterCall, inactive, nextReportId,
                   creating, activityText>>

\* timezone.now() moves on
Tick ==
    /\ now < MaxClock
    /\ now' = now + 1
    /\ lastOp' = Op("tick", "-", Anonymous, 0, NoFrame, "-", 0)
    /\ UNCHANGED <<conversations, messages, nextMessageId, bannedWords, connVars,
                   pc, pending, layerVars, nframes>>
    /\ UNCHANGED appVars

---------------------------------------------------------------------------
(* accounts/views.py BlockUserView: a BlockedUser row is <<blocker, blocked>>. *)

block_data(user_id) == [NoData EXCEPT !.participant_ids = <<user_id>>]

BlockUserView_post(user, user_id) ==
    /\ is_authenticated(user)
    /\ IF user = user_id
         THEN /\ lastOp' = OpData("block", user, 0, "400", block_data(user_id))
              /\ blocks' = blocks
         ELSE IF user_id \notin Users \ inactive
           THEN /\ lastOp' = OpData("block", user, 0, "404", block_data(user_id))
                /\ blocks' = blocks
           ELSE /\ blocks' = blocks \cup {<<user, user_id>>}
                /\ lastOp' = OpData("block", user, 0,
                                    IF <<user, user_id>> \in blocks THEN "200" ELSE "201",
                                    block_data(user_id))
    /\ UNCHANGED <<dbVars, connVars, pc, pending, layerVars, nframes>>
    /\ UNCHANGED <<nextConvId, activityVars, filterCall, extVars>>

BlockUserView_delete(user, user_id) ==
    /\ is_authenticated(user)
    /\ blocks' = blocks \ {<<user, user_id>>}
    /\ lastOp' = OpData("unblock", user, 0,
                        IF <<user, user_id>> \in blocks THEN "200" ELSE "404",
                        block_data(user_id))
    /\ UNCHANGED <<dbVars, connVars, pc, pending, layerVars, nframes>>
    /\ UNCHANGED <<nextConvId, activityVars, filterCall, extVars>>

---------------------------------------------------------------------------
(* CreateConversationView.post.                                            *)

\* the ids of the BlockedUser rows in which the user is blocker or blocked
blocked_flat(user) ==
    UNION {{b[1], b[2]} : b \in {x \in blocks : x[1] = user \/ x[2] = user}}

\* Conversation.objects.filter(participants=user, conversation_type='direct')
\*                     .filter(participants=other)
direct_with(user, other) ==
    {cv \in AllConvIds : /\ conversations[cv].exists
                         /\ conversations[cv].conversation_type = "direct"
                         /\ user \in conversations[cv].participants
                         /\ other \in conversations[cv].participants}

\* .first() under Meta.ordering = ['-last_message_at']: a row with the
\* latest last_message_at; among rows with equal timestamps the database
\* returns any
first_of(rows) ==
    {cv \in rows : \A x \in rows :
        conversations[x].last_message_at <= conversations[cv].last_message_at}

\* the rows the lookup "existing = ....first()" can return; none when the
\* call has an activity id or names more or less than one participant
existing_rows(user, participant_ids, activity_id) ==
    IF activity_id = 0 /\ Len(participant_ids) = 1
      THEN first_of(direct_with(user, participant_ids[1]))
      ELSE {}

\* "any(pid in blocked_flat for pid in participant_ids)"
names_blocked(user, participant_ids) ==
    \E i \in 1..Len(participant_ids) : participant_ids[i] \in blocked_flat(user)

\* User.objects.filter(id__in=participant_ids, is_active=True)
active_participants(participant_ids) ==
    {participant_ids[i] : i \in 1..Len(participant_ids)} \cap (Users \ inactive)

create_data(participant_ids, activity_id, text) ==
    [NoData EXCEPT !.participant_ids = participant_ids,
                   !.activity_id = activity_id, !.text = text]

\* Conversation.objects.create(...) and participants.add(...)
new_conversation(user, participant_ids, activity_id) ==
    [exists |-> TRUE,
     participants |-> {user} \cup active_participants(participant_ids),
     conversation_type |-> IF activity_id # 0 THEN "activity" ELSE "direct",
     activity |-> activity_id,
     created_at |-> now, last_message_at |-> now]

\* "if initial_message:" with a text: the clock has moved on by d since the
\* Conversation row was written; the Message row is created and the
\* conversation is not saved again
create_initial_message(user, text, d) ==
    /\ nextMessageId <= MaxMessages
    /\ now + d <= MaxClock
    /\ messages' = messages \cup
          {[new_message(nextMessageId, nextConvId, user, text,
                        filter_ugc_content(text, bannedWords, TRUE))
              EXCEPT !.created_at = now + d]}
    /\ nextMessageId' = nextMessageId + 1
    /\ now' = now + d

\* the part of post() after the lookup: a new row, its participants and
\* the initial message; the serializer's CharField has trimmed the text
create_conversation(user, participant_ids, activity_id, text) ==
    /\ nextConvId <= MaxConversations
    /\ conversations' = [conversations EXCEPT ![nextConvId] =
                            new_conversation(user, participant_ids, activity_id)]
    /\ nextConvId' = nextConvId + 1
    /\ IF text = <<>>
         THEN UNCHANGED <<messages, nextMessageId, now>>
         ELSE \E d \in {0, 1} : create_initial_message(user, text, d)
    /\ lastOp' = OpData("create_conversation", user, nextConvId, "201",
                        create_data(participant_ids, activity_id, text))

\* "return Response(ConversationDetailSerializer(existing, ...).data)"
return_existing(user, existing, data) ==
    /\ lastOp' = OpData("create_conversation", user, existing, "200", data)
    /\ UNCHANGED <<conversations, nextConvId, messages, nextMessageId, now>>

\* the 400 of the blocked-users check
refuse_blocked(user, data) ==
    /\ lastOp' = OpData("create_conversation", user, 0, "400", data)
    /\ UNCHANGED <<conversations, nextConvId, messages, nextMessageId, now>>

\* "if existing and existing.participants.count() == 2"
reusable(existing) == Cardinality(conversations[existing].participants) = 2

CreateConversationView_post(user, participant_ids, activity_id, initial_message) ==
    /\ is_authenticated(user)
    /\ \/ /\ names_blocked(user, participant_ids)
          /\ refuse_blocked(user, create_data(participant_ids, activity_id,
                                              strip(initial_message)))
       \/ /\ ~names_blocked(user, participant_ids)
          /\ \E existing \in existing_rows(user, participant_ids, activity_id) :
                /\ reusable(existing)
                /\ return_existing(user, existing,
                                   create_data(participant_ids, activity_id,
                                               strip(initial_message)))
       \/ /\ ~names_blocked(user, participant_ids)
          /\ \/ existing_rows(user, participant_ids, activity_id) = {}
             \/ \E existing \in existing_rows(user, participant_ids, activity_id) :
                    ~reusable(existing)
          /\ create_conversation(user, participant_ids, activity_id,
                                 strip(initial_message))
    /\ UNCHANGED <<bannedWords, connVars, pc, pending, layerVars, nframes>>
    /\ UNCHANGED <<blocks, activityVars, filterCall, extVars>>

---------------------------------------------------------------------------
(* activities/models.py and ActivityViewSet.apply / respond_to_application. *)

\* Activity.is_full, Activity.spots_left, Activity.is_past of an instance
is_full(a) == a.current_participants >= a.max_participants

\* a count of the spots that is one more than there are
spots_left_one_more(a) == a.max_participants - a.current_participants + 1

spots_left(a) ==
    IF a.max_participants - a.current_participants > 0
      THEN a.max_participants - a.current_participants
      ELSE 0

is_past(a) == IF ~a.has_end THEN a.start_time < now ELSE a.end_time < now

\* the status Activity.save() gives the instance before it writes
saved_status(a) ==
    IF is_full(a) /\ a.status = "active" THEN "full"
    ELSE IF is_past(a) /\ a.status \in {"active", "full"} THEN "completed"
    ELSE a.status

\* activity.save(update_fields=['current_participants']) of an instance:
\* the UPDATE writes that column of the row and no other, so the status
\* save() has set on the instance is not stored
save_current_participants(row, instance) ==
    [row EXCEPT !.current_participants = instance.current_participants]

\* get_queryset: active activities that have not started, of creators the
\* user has not blocked and who have not blocked the user
in_queryset(user, activity_id) ==
    /\ activity_id \in ActivityIds
    /\ activities[activity_id].is_active
    /\ activities[activity_id].start_time >= now
    /\ <<user, activities[activity_id].creator>> \notin blocks
    /\ <<activities[activity_id].creator, user>> \notin blocks

activity_data(activity_id, participation, action, group_member_count) ==
    [NoData EXCEPT !.activity_id = activity_id, !.participation = participation,
                   !.action = action, !.group_member_count = group_member_count]

\* ActivityViewSet.apply, the call without a message
apply_refuse(user, activity_id, group_member_count, status) ==
    /\ lastOp' = OpData("apply", user, 0, status,
                        activity_data(activity_id, 0, "-", group_member_count))
    /\ UNCHANGED <<participations, nextParticipationId>>

apply_create(user, activity_id, group_member_count) ==
    /\ participations' = participations \cup
          {[id |-> nextParticipationId, activity |-> activity_id, user |-> user,
            status |-> "pending", group_member_count |-> group_member_count]}
    /\ nextParticipationId' = nextParticipationId + 1
    /\ lastOp' = OpData("apply", user, 0, "201",
                        activity_data(activity_id, nextParticipationId, "-",
                                      group_member_count))

apply(user, activity_id, group_member_count) ==
    /\ is_authenticated(user)
    /\ IF ~in_queryset(user, activity_id)
         THEN apply_refuse(user, activity_id, group_member_count, "404")
         ELSE IF \/ \E p \in participations : p.activity = activity_id /\ p.user = user
                 \/ activities[activity_id].creator = user
                 \/ is_full(activities[activity_id])
           THEN apply_refuse(user, activity_id, group_member_count, "400")
           ELSE apply_create(user, activity_id, group_member_count)
    /\ UNCHANGED <<dbVars, connVars, pc, pending, layerVars, nframes>>
    /\ UNCHANGED <<nextConvId, blocks, activities, req, filterCall, extVars>>

\* respond_to_application up to the serializer: get_object(), the creator
\* check and activity.participations.get(id=...).  The worker r holds the
\* Activity instance and the participation it read (participation.activity
\* is that same instance).
respond_refuse(r, user, activity_id, participation_id, action, status) ==
    /\ lastOp' = [OpData("respond", user, 0, status,
                         activity_data(activity_id, participation_id, action, 0))
                    EXCEPT !.conn = r]
    /\ req' = req

respond_read(r, user, activity_id, action, p) ==
    /\ req' = [req EXCEPT ![r] =
                  [pc |-> "respond", user |-> user, action |-> action,
                   activity_id |-> activity_id,
                   activity |-> activities[activity_id], participation |-> p]]
    /\ lastOp' = [OpData("respond_read", user, 0, "-",
                         activity_data(activity_id, p.id, action,
                                       p.group_member_count))
                    EXCEPT !.conn = r]

respond_load(r, user, activity_id, participation_id, action) ==
    /\ is_authenticated(user)
    /\ req[r].pc = "idle"
    /\ IF ~in_queryset(user, activity_id)
         THEN respond_refuse(r, user, activity_id, participation_id, action, "404")
         ELSE IF activities[activity_id].creator # user
           THEN respond_refuse(r, user, activity_id, participation_id, action, "403")
           ELSE IF ~\E p \in participations :
                       p.id = participation_id /\ p.activity = activity_id
             THEN respond_refuse(r, user, activity_id, participation_id, action, "404")
             ELSE \E p \in participations :
                     /\ p.id = participation_id
                     /\ p.activity = activity_id
                     /\ respond_read(r, user, activity_id, action, p)
    /\ UNCHANGED <<dbVars, connVars, pc, pending, layerVars, nframes>>
    /\ UNCHANGED <<nextConvId, blocks, activities, participations,
                   nextParticipationId, filterCall, extVars>>

\* the row of the participation instance, saved with a status
save_participation(p, status) ==
    {IF x.id = p.id THEN [p EXCEPT !.status = status] ELSE x : x \in participations}

respond_done(r, status) ==
    /\ lastOp' = [OpData("respond", req[r].user, 0, status,
                         activity_data(req[r].activity_id, req[r].participation.id,
                                       req[r].action,
                                       req[r].participation.group_member_count))
                    EXCEPT !.conn = r]
    /\ req' = [req EXCEPT ![r] = NoRequest]

\* "self.activity.current_participants += self.group_member_count"
counted(a, p) ==
    [a EXCEPT !.current_participants = @ + p.group_member_count]

\* ActivityParticipation.approve of the worker's instances
approve(r) ==
    IF req[r].participation.status # "approved"
      THEN /\ participations' = save_participation(req[r].participation, "approved")
           /\ activities' = [activities EXCEPT ![req[r].activity_id] =
                 save_current_participants(@,
                     [counted(req[r].activity, req[r].participation)
                        EXCEPT !.status =
                          saved_status(counted(req[r].activity,
                                               req[r].participation))])]
      ELSE UNCHANGED <<participations, activities>>

\* ActivityParticipation.reject
reject(r) ==
    /\ participations' = save_participation(req[r].participation, "rejected")
    /\ activities' = activities

\* the capacity check of respond_to_application
enough_spots(a, p) == ~(spots_left(a) < p.group_member_count)

\* respond_to_application from "if action == 'approve'" on
respond_commit(r) ==
    /\ req[r].pc = "respond"
    /\ IF req[r].action = "approve"
         THEN IF ~enough_spots(req[r].activity, req[r].participation)
                THEN /\ respond_done(r, "400")
                     /\ UNCHANGED <<participations, activities>>
                ELSE /\ approve(r)
                     /\ respond_done(r, "200")
         ELSE /\ reject(r)
              /\ respond_done(r, "200")
    /\ UNCHANGED <<dbVars, connVars, pc, pending, layerVars, nframes>>
    /\ UNCHANGED <<nextConvId, blocks, nextParticipationId, filterCall, extVars>>

---------------------------------------------------------------------------
(* moderation: the BannedWord table in the admin, and calls of the filter. *)

\* BannedWordAdmin's add form: a new row, active by default; word is unique
add_banned_word(word, is_regex) ==
    /\ Len(bannedWords) < MaxBannedWords
    /\ \A i \in 1..Len(bannedWords) : bannedWords[i].word # word
    /\ bannedWords' = Append(bannedWords,
                             [word |-> word, is_regex |-> is_regex, is_active |-> TRUE])
    /\ lastOp' = OpData("add_banned_word", Anonymous, 0, "-", send_data(word))
    /\ UNCHANGED <<conversations, messages, nextMessageId, now, connVars, pc,
                   pending, layerVars, nframes, appVars>>

\* the admin's delete of row i
delete_banned_word(i) ==
    /\ i \in 1..Len(bannedWords)
    /\ bannedWords' = [j \in 1..(Len(bannedWords) - 1) |->
                          IF j < i THEN bannedWords[j] ELSE bannedWords[j + 1]]
    /\ lastOp' = OpData("delete_banned_word", Anonymous, 0, "-",
                        send_data(bannedWords[i].word))
    /\ UNCHANGED <<conversations, messages, nextMessageId, now, connVars, pc,
                   pending, layerVars, nframes, appVars>>

\* list_editable = ['is_active']: the moderator ticks or unticks row i
set_active(i, is_active) ==
    /\ i \in 1..Len(bannedWords)
    /\ bannedWords[i].is_active # is_active
    /\ bannedWords' = [bannedWords EXCEPT ![i].is_active = is_active]
    /\ lastOp' = OpData(IF is_active THEN "activate" ELSE "deactivate",
                        Anonymous, 0, "-", send_data(bannedWords[i].word))
    /\ UNCHANGED <<conversations, messages, nextMessageId, now, connVars, pc,
                   pending, layerVars, nframes, appVars>>

\* One call filter_ugc_content(text), with the database reachable or not;
\* filterCall keeps the call and what it returned.
call_filter(text, store_up) ==
    /\ filterCall' = [text |-> text, store_up |-> store_up,
                      result |-> filter_ugc_content(text, bannedWords, store_up)]
    /\ lastOp' = OpData("filter", Anonymous, 0, "-", send_data(text))
    /\ UNCHANGED <<dbVars, connVars, pc, pending, layerVars, nframes>>
    /\ UNCHANGED <<nextConvId, blocks, activityVars, extVars>>

---------------------------------------------------------------------------

\* The three write paths of Message: one connection of user 1 on
\* conversation 1 sending chat messages, HTTP sends of user 2, and
\* create-conversation calls of user 3, who blocks and unblocks user 1.
WriteFrames == {Frame("chat_message", Text(t), FALSE) : t \in {HiText, HandleText}}
WriteToken == [kind |-> "valid", user_id |-> 1]
InitialMessages == {<<>>, HiText, HandleText}

NextWrite ==
    \/ JWTAuthMiddleware("a", WriteToken, 1)
    \/ connect("a")
    \/ \E frame \in WriteFrames : receive("a", frame)
    \/ handler_group_send("a")
    \/ dispatch("a")
    \/ \E text \in {HiText, HandleText} : SendMessageView_post(2, 1, text)
    \/ \E initial_message \in InitialMessages :
          CreateConversationView_post(3, <<1>>, 0, initial_message)
    \/ BlockUserView_post(3, 1)
    \/ BlockUserView_delete(3, 1)

SpecWrite == Init /\ [][NextWrite]_vars

\* The Conversation table: create-conversation calls that name one or two
\* users, with and without an activity and a first message, HTTP sends of
\* user 1, user 3 blocking and unblocking user 1, and the clock.
\* A call is <<user, participant_ids, activity_id, initial_message>>.
CreateCalls ==
    {<<1, <<3>>, 0, <<>>>>, <<3, <<1>>, 0, HandleText>>, <<1, <<2>>, 0, <<>>>>,
     <<2, <<1>>, 0, <<>>>>, <<1, <<2, 3>>, 0, <<>>>>, <<1, <<2>>, 1, HandleText>>}

NextConversation ==
    \/ \E call \in CreateCalls :
          CreateConversationView_post(call[1], call[2], call[3], call[4])
    \/ \E cv \in {1, 3} : SendMessageView_post(1, cv, HiText)
    \/ BlockUserView_post(3, 1)
    \/ BlockUserView_delete(3, 1)
    \/ Tick

SpecConversation == Init /\ [][NextConversation]_vars

\* One activity of user 1 with any capacity and start time: users 2 and 3
\* apply alone or as a group, the creator's respond calls are served by two
\* workers (the second takes approvals only), and the clock ticks.
InitActivities ==
    /\ InitChat
    /\ bannedWords = BannedWords0
    /\ \E cap \in 1..MaxCapacity, start \in 0..MaxClock : InitActivity(cap, start)
    /\ filterCall = NoCall
    /\ InitAccounts

RespondActions(r) == IF r = "r1" THEN {"approve", "reject"} ELSE {"approve"}

NextActivity ==
    \/ \E user \in {2, 3}, group_member_count \in 1..MaxGroup :
          apply(user, 1, group_member_count)
    \/ \E r \in Requests, participation_id \in 1..2 :
          \E action \in RespondActions(r) :
             respond_load(r, 1, 1, participation_id, action)
    \/ \E r \in Requests : respond_commit(r)
    \/ Tick

SpecActivity == InitActivities /\ [][NextActivity]_vars

\* The filter and the moderators: texts with a banned word, a handle and
\* both; words a moderator adds as text or as pattern, one of them a
\* pattern that does not compile.
HandleBadText == <<"@", "b", "o", "b", " ", "b", "a", "d">>
FilterTexts == {HiText, HandleBadText}

NewWords == {[word |-> <<"h", "i">>, is_regex |-> FALSE],
             [word |-> <<"b", ".", "d">>, is_regex |-> TRUE],
             [word |-> <<"*", "a">>, is_regex |-> TRUE]}

NextFilter ==
    \/ \E text \in FilterTexts, store_up \in BOOLEAN : call_filter(text, store_up)
    \/ \E w \in NewWords : add_banned_word(w.word, w.is_regex)
    \/ \E i \in 1..MaxBannedWords : delete_banned_word(i)
    \/ \E i \in 1..MaxBannedWords, is_active \in BOOLEAN : set_active(i, is_active)

SpecFilter == Init /\ [][NextFilter]_vars

\* The chat channel: connections of participants of conversation 1, their
\* frames, the admin deleting the conversation under them, and the clock.
ChatTokens == {[kind |-> "valid", user_id |-> u] : u \in {1, 2}}

Pair == {"a", "b"}

Next ==
    \/ \E c \in Pair, token \in ChatTokens : JWTAuthMiddleware(c, token, 1)
    \/ \E c \in Pair : connect(c)
    \/ \E c \in Pair : disconnect(c)
    \/ \E c \in Pair, frame \in Frames : receive(c, frame)
    \/ \E c \in Pair : handler_group_send(c)
    \/ \E c \in Pair : dispatch(c)
    \/ delete_conversation(1)
    \/ Tick

Spec == Init /\ [][Next]_vars

\* The handshake with every kind of token, on either conversation; the
\* connections let in send chat and typing frames.
AuthFrames == {Frame("chat_message", Text(HiText), FALSE), Frame("typing", Absent, TRUE)}

NextAuth ==
    \/ \E c \in Pair, token \in Tokens, cv \in ConvIds : JWTAuthMiddleware(c, token, cv)
    \/ \E c \in Pair : connect(c)
    \/ \E c \in Pair : disconnect(c)
    \/ \E c \in Pair, frame \in AuthFrames : receive(c, frame)
    \/ \E c \in Pair : handler_group_send(c)
    \/ \E c \in Pair : dispatch(c)

SpecAuth == Init /\ [][NextAuth]_vars

\* Typing: three connections of two users on conversation 1 (so one user has
\* two connections), sending typing frames.  The two participants are alike,
\* so the first connection is taken to be of user 1.
TypingFrames == {Frame("typing", Absent, b) : b \in BOOLEAN}

TypingTokens(c) ==
    IF c = "a" THEN {[kind |-> "valid", user_id |-> 1]} ELSE ChatTokens

NextTyping ==
    \/ \E c \in Conns : \E token \in TypingTokens(c) : JWTAuthMiddleware(c, token, 1)
    \/ \E c \in Conns : connect(c)
    \/ \E c \in Conns : disconnect(c)
    \/ \E c \in Conns, frame \in TypingFrames : receive(c, frame)
    \/ \E c \in Conns : dispatch(c)

SpecTyping == Init /\ [][NextTyping]_vars

\* Read state: messages sent over HTTP by both participants of conversation
\* 1 and to conversation 2, mark-as-read over HTTP, and read frames of the
\* connections on conversation 1.
ReadFrames == {Frame("read", Absent, FALSE)}

\* <<user, conversation>> of the HTTP sends
ReadSenders == {<<1, 1>>, <<2, 1>>, <<1, 2>>}

NextRead ==
    \/ \E c \in Pair, token \in ChatTokens : JWTAuthMiddleware(c, token, 1)
    \/ \E c \in Pair : connect(c)
    \/ \E c \in Pair, frame \in ReadFrames : receive(c, frame)
    \/ \E c \in Pair : handler_group_send(c)
    \/ \E c \in Pair : dispatch(c)
    \/ \E p \in ReadSenders : SendMessageView_post(p[1], p[2], HiText)
    \/ \E user \in {1, 2} : MarkMessagesReadView_post(user, 1)

SpecRead == Init /\ [][NextRead]_vars

---------------------------------------------------------------------------
(* The claims.                                                             *)

\* what the handshake of connection c presented resolves to a user who is a
\* participant of the conversation it asked for
Authorized(c) ==
    /\ connToken[c].kind = "valid"
    /\ connToken[c].user_id \in Participants0(connConv[c])

\* C1: a connection attempt with no token, with a token that resolves to no
\* user (undecodable, expired, of an unknown user) or with the token of a
\* user who is no participant of the conversation never becomes Joined, is in
\* no broadcast group and gets no event and no frame.
C1_AuthorizationGate ==
    \A c \in Conns :
        (connState[c] # "connecting" /\ ~Authorized(c)) =>
            /\ connState[c] \in {"authorizing", "closed"}
            /\ \A cv \in ConvIds : c \notin groups[cv]
            /\ mailbox[c] = <<>>
            /\ delivered[c] = <<>>

\* a non-participant was turned away and, after that, a member of the
\* conversation it asked for got a broadcast
C1_Witness ==
    \E c, d \in Conns :
        /\ connState[c] = "closed" /\ ~Authorized(c)
        /\ connToken[c].kind = "valid" /\ connToken[c].user_id \in Users
        /\ d \notin Earlier(c) /\ d # c
        /\ connConv[d] = connConv[c]
        /\ delivered[d] # <<>>

---------------------------------------------------------------------------
(* Chat messages: persistence, broadcast, failures, malformed frames.      *)

\* the step is receive(c, frame) for some frame
Receives(c) ==
    /\ nframes' = nframes + 1
    /\ lastOp'.op = "receive"
    /\ lastOp'.conn = c

\* the step is the group_send that ends a handler of c
Broadcasts(c, type) ==
    /\ pc[c] = "group_send"
    /\ pc'[c] = "idle"
    /\ pending[c].type = type

\* the step is c's consumer handling the next event of its channel
Handles(c, type) ==
    /\ lastOp'.op = "dispatch"
    /\ lastOp'.conn = c
    /\ mailbox[c] # <<>>
    /\ Head(mailbox[c]).type = type

OnlyWhitespace(t) == \A i \in DOMAIN t : t[i] \in Whitespace

\* the step is receive(c, frame) for a chat_message whose content has a
\* character that is no whitespace
ReceivesChat(c) ==
    /\ Receives(c)
    /\ lastOp'.frame.kind = "chat_message"
    /\ lastOp'.frame.content.kind = "text"
    /\ ~OnlyWhitespace(lastOp'.frame.content.text)

\* the chat_message events of a sequence of events or frames
ChatEvents(q) == {q[i] : i \in {k \in DOMAIN q : q[k].type = "chat_message"}}

AllChatEvents ==
    UNION {ChatEvents(mailbox[c]) \cup ChatEvents(delivered[c]) : c \in Conns}
    \cup {pending[c] : c \in {d \in Conns : pending[d].type = "chat_message"}}

\* C2: every chat message is persisted before it is broadcast, and every
\* member connection receives the chat messages of the conversation in the
\* order in which they were persisted (the order of their ids).
C2_PersistenceOrder ==
    /\ \A e \in AllChatEvents : e.message.id < nextMessageId
    /\ \A c \in Conns : \A i, j \in DOMAIN delivered[c] :
          (/\ i < j
           /\ delivered[c][i].type = "chat_message"
           /\ delivered[c][j].type = "chat_message")
              => delivered[c][i].message.id < delivered[c][j].message.id

\* C3: a chat_message with non-empty content from a joined connection
\* creates exactly one Message row; the handler's group_send puts the
\* persisted form of that row (id, stored content, is_filtered, created_at)
\* on the channel of every member of the group, the sender's included; and a
\* member's consumer writes that same form to its client.
C3_Persisted(c) ==
    (ReceivesChat(c) /\ conversations[connConv[c]].exists) =>
        \E m \in messages' :
            /\ messages' = messages \cup {m}
            /\ \A x \in messages : x.id # m.id
            /\ m.id = nextMessageId
            /\ m.conversation = connConv[c]
            /\ m.sender = connUser[c]
            /\ m.created_at = now
            /\ ~m.is_read
            /\ pending'[c].type = "chat_message"
            /\ pending'[c].message =
                  [id |-> m.id, sender |-> m.sender, content |-> m.content,
                   is_filtered |-> m.is_filtered, created_at |-> m.created_at]

C3_ToEveryMember(c) ==
    Broadcasts(c, "chat_message") =>
        /\ c \in groups[connConv[c]]
        /\ \A d \in groups[connConv[c]] : mailbox'[d] = Append(mailbox[d], pending[c])

C3_Written(c) ==
    Handles(c, "chat_message") =>
        delivered'[c] = Append(delivered[c], Head(mailbox[c]))

C3_RoundTrip ==
    [][\A c \in Conns : C3_Persisted(c) /\ C3_ToEveryMember(c) /\ C3_Written(c)]_vars

\* a filtered message came back to its sender and reached the other member
C3_Witness ==
    \E c, d \in Conns : \E e \in ChatEvents(delivered[c]) :
        /\ c # d
        /\ e.origin = c
        /\ e.message.is_filtered
        /\ e \in ChatEvents(delivered[d])

\* the step is receive(c, frame) for a chat_message with content whose save
\* fails because the conversation is gone
SaveFails(c) == ReceivesChat(c) /\ ~conversations[connConv[c]].exists

\* C5: when the save of a chat_message fails, nothing is put on any channel
\* and the handler does not go on to its group_send; every chat_message
\* event there is carries a message that was persisted.
C5_Step(c) ==
    SaveFails(c) =>
        /\ mailbox' = mailbox
        /\ pending'[c].type # "chat_message"
        /\ pc'[c] # "group_send"

C5_NoBroadcastOfUnsaved ==
    /\ [](\A e \in AllChatEvents : e.message.id < nextMessageId)
    /\ [][\A c \in Conns : C5_Step(c)]_vars

\* a save failed while another member was in the group, and that member
\* got no event
C5_Witness ==
    /\ lastOp.op = "receive"
    /\ lastOp.frame.kind = "chat_message"
    /\ lastOp.frame.content.kind = "text"
    /\ ~OnlyWhitespace(lastOp.frame.content.text)
    /\ ~conversations[lastOp.conv].exists
    /\ messages = {}
    /\ \E d \in groups[lastOp.conv] :
          /\ d # lastOp.conn
          /\ connState[d] = "joined"
          /\ mailbox[d] = <<>>
          /\ delivered[d] = <<>>

\* C6: after a failed save the sending connection is still joined and still
\* in the group.
C6_StillJoined ==
    [][\A c \in Conns :
          SaveFails(c) => /\ connState'[c] = "joined"
                          /\ c \in groups'[connConv[c]]]_vars

\* C7: a frame that does not decode to a {type, ...} object is dropped: no
\* row is created or marked read, nothing is broadcast, the connection stays
\* joined and the group is as it was.
Malformed(frame) == frame.kind \in {"not_json", "not_object"}

C7_MalformedDropped ==
    [][\A c \in Conns :
          (Receives(c) /\ Malformed(lastOp'.frame)) =>
              /\ messages' = messages
              /\ mailbox' = mailbox
              /\ pending' = pending
              /\ groups' = groups
              /\ connState'[c] = "joined"]_vars

\* C8: a chat_message whose content is missing, empty or only whitespace
\* changes nothing: no row, the conversation's last_message_at as it was,
\* nothing broadcast or pending, the connection joined.
BlankChat(frame) ==
    /\ frame.kind = "chat_message"
    /\ frame.content.kind \in {"text", "absent"}
    /\ OnlyWhitespace(frame.content.text)

C8_BlankIsNoOp ==
    [][\A c \in Conns :
          (Receives(c) /\ BlankChat(lastOp'.frame)) =>
              /\ messages' = messages
              /\ nextMessageId' = nextMessageId
              /\ conversations' = conversations
              /\ mailbox' = mailbox
              /\ pending' = pending
              /\ pc' = pc
              /\ groups' = groups
              /\ delivered' = delivered
              /\ connState'[c] = "joined"]_vars

\* a whitespace-only chat_message was taken on a conversation that has a
\* message, by a connection that is still joined
C8_Witness ==
    /\ lastOp.op = "receive"
    /\ lastOp.frame = Frame("chat_message", Text(BlankText), FALSE)
    /\ messages # {}
    /\ connState[lastOp.conn] = "joined"

---------------------------------------------------------------------------
(* Typing indicators.                                                      *)

\* the frame a consumer writes for a typing_indicator event
TypingFrame(e) == [e EXCEPT !.type = "typing"]

\* the step is receive(c, frame) for a typing frame: the event goes on the
\* channel of every member of the group
C4_Sent(c) ==
    (Receives(c) /\ lastOp'.frame.kind = "typing") =>
        \A d \in groups[connConv[c]] :
            \E e \in {mailbox'[d][Len(mailbox'[d])]} :
                /\ mailbox'[d] = Append(mailbox[d], e)
                /\ e.type = "typing_indicator"
                /\ e.user_id = connUser[c]
                /\ e.is_typing = lastOp'.frame.is_typing
                /\ e.origin = c

\* C4 as stated: a typing event is written to every other member connection
\* and never to the connection that sent it.
C4_OtherConnection(d) ==
    Handles(d, "typing_indicator") =>
        delivered'[d] = IF Head(mailbox[d]).origin # d
                          THEN Append(delivered[d], TypingFrame(Head(mailbox[d])))
                          ELSE delivered[d]

C4_EveryOtherConnection ==
    [][\A c \in Conns : C4_Sent(c) /\ C4_OtherConnection(c)]_vars

\* C4 as amended: a typing event is written to every member connection of
\* another user than the sender's, and to no connection of the sender's
\* user, the sending connection included.
C4_OtherUser(d) ==
    Handles(d, "typing_indicator") =>
        delivered'[d] = IF Head(mailbox[d]).user_id # connUser[d]
                          THEN Append(delivered[d], TypingFrame(Head(mailbox[d])))
                          ELSE delivered[d]

C4_EveryOtherUser ==
    /\ [](\A d \in Conns : \A i \in DOMAIN delivered[d] :
            delivered[d][i].type = "typing" =>
                /\ delivered[d][i].origin # d
                /\ delivered[d][i].user_id # connUser[d])
    /\ [][\A c \in Conns : C4_Sent(c) /\ C4_OtherUser(c)]_vars

\* the second connection of the typing user handled the event and wrote
\* nothing, while the connection of the other user got the frame
C4_Witness ==
    \E x, y, z \in Conns :
        /\ connUser[x] = connUser[y] /\ x # y
        /\ connUser[z] # connUser[x]
        /\ lastOp.op = "dispatch" /\ lastOp.conn = y
        /\ lastOp.result = "typing_indicator"
        /\ delivered[y] = <<>>
        /\ \E i \in DOMAIN delivered[z] :
              /\ delivered[z][i].type = "typing"
              /\ delivered[z][i].origin = x

---------------------------------------------------------------------------
(* Read receipts and mark-as-read.                                         *)

\* the rows of ms a mark-as-read of user u on conversation cv is to update
ToMark(ms, cv, u) == {m \in ms : m.conversation = cv /\ ~m.is_read /\ m.sender # u}

\* C9: a read frame of user u on conversation cv sets is_read on exactly the
\* unread messages of cv that u did not send and leaves every other row as it
\* was; nothing is sent while the rows are updated, and the handler's
\* group_send that follows puts a receipt with u's id on the channel of every
\* member of the group, u's own connection included, whose consumer writes
\* it to its client.
C9_Marks(c) ==
    (Receives(c) /\ lastOp'.frame.kind = "read") =>
        /\ \A m \in ToMark(messages, connConv[c], connUser[c]) :
              [m EXCEPT !.is_read = TRUE] \in messages' /\ m \notin messages'
        /\ \A m \in messages \ ToMark(messages, connConv[c], connUser[c]) :
              m \in messages'
        /\ Cardinality(messages') = Cardinality(messages)
        /\ mailbox' = mailbox
        /\ delivered' = delivered
        /\ pending'[c].type = "messages_read"
        /\ pending'[c].user_id = connUser[c]

C9_Receipt(c) ==
    Broadcasts(c, "messages_read") =>
        /\ c \in groups[connConv[c]]
        /\ pending[c].user_id = connUser[c]
        /\ \A d \in groups[connConv[c]] : mailbox'[d] = Append(mailbox[d], pending[c])

C9_Written(c) ==
    Handles(c, "messages_read") =>
        /\ Len(delivered'[c]) = Len(delivered[c]) + 1
        /\ delivered'[c][Len(delivered'[c])].type = "read"
        /\ delivered'[c][Len(delivered'[c])].user_id = Head(mailbox[c]).user_id

\* a receipt comes on a channel only by the group_send of a handler that has
\* done its update
C9_AfterUpdate ==
    (\E d \in Conns : /\ Len(mailbox'[d]) > Len(mailbox[d])
                      /\ mailbox'[d][Len(mailbox'[d])].type = "messages_read")
        => \E c \in Conns : Broadcasts(c, "messages_read")

C9_ReadMarksOthersUnread ==
    [][/\ \A c \in Conns : C9_Marks(c) /\ C9_Receipt(c) /\ C9_Written(c)
       /\ C9_AfterUpdate]_vars

\* user 2 read conversation 1 and got its own receipt: the message of user 1
\* there is read, its own message and the message of conversation 2 are not
C9_Witness ==
    \E c \in Conns :
        /\ connUser[c] = 2
        /\ \E i \in DOMAIN delivered[c] :
              /\ delivered[c][i].type = "read"
              /\ delivered[c][i].origin = c
        /\ \E m \in messages : m.conversation = 1 /\ m.sender = 1 /\ m.is_read
        /\ \E m \in messages : m.conversation = 1 /\ m.sender = 2 /\ ~m.is_read
        /\ \E m \in messages : m.conversation = 2 /\ m.sender = 1 /\ ~m.is_read

\* lastOp is a mark-as-read that went through (HTTP 200, or a read frame)
IsMarkRead(op) ==
    \/ op.op = "http_read" /\ op.result = "200"
    \/ op.op = "receive" /\ op.frame.kind = "read" /\ op.result = "marked"

\* C10: right after a mark-as-read of user u on a conversation nothing is
\* left for u to mark there; a second call that follows it reports zero rows
\* and leaves the messages as they are; every call reports the number of
\* rows it updated; and the rows u has to mark grow only when a message is
\* created, whichever connections or requests run in between.
C10_NothingLeft ==
    IsMarkRead(lastOp) => ToMark(messages, lastOp.conv, lastOp.user) = {}

C10_Reports ==
    (IsMarkRead(lastOp') /\ lastOp' # lastOp) =>
        /\ lastOp'.updated =
              Cardinality(ToMark(messages, lastOp'.conv, lastOp'.user))
        /\ Cardinality(messages' \ messages) = lastOp'.updated

C10_Twice ==
    (/\ IsMarkRead(lastOp) /\ IsMarkRead(lastOp')
     /\ lastOp'.user = lastOp.user
     /\ lastOp'.conv = lastOp.conv) =>
        /\ messages' = messages
        /\ lastOp' # lastOp => lastOp'.updated = 0

C10_OnlyNewMessages ==
    \A u \in Users, cv \in ConvIds :
        \/ ToMark(messages', cv, u) \subseteq ToMark(messages, cv, u)
        \/ nextMessageId' > nextMessageId

C10_MarkReadIdempotent ==
    /\ []C10_NothingLeft
    /\ [][C10_Reports /\ C10_Twice /\ C10_OnlyNewMessages]_vars

\* two connections of one user read at the same time: the second update
\* ran before the first handler's group_send and found nothing to mark
C10_Witness ==
    \E c, d \in Conns :
        /\ c # d
        /\ connUser[c] = connUser[d]
        /\ pc[c] = "group_send" /\ pending[c].type = "messages_read"
        /\ lastOp.op = "receive" /\ lastOp.conn = d
        /\ lastOp.frame.kind = "read"
        /\ lastOp.updated = 0
        /\ \E m \in messages : m.conversation = connConv[c] /\ m.is_read

---------------------------------------------------------------------------
(* Claims about the stored messages and the Conversation table.            *)

\* C11: in every reachable state, every Message row, whichever write path
\* created it (channel chat_message, HTTP send, initial message of
\* create-conversation), has a non-empty original_content only if its
\* is_filtered flag is true.
C11_OriginalOnlyIfFiltered ==
    \A m \in messages : m.original_content # <<>> => m.is_filtered

\* a redacted message in conversation 1 and one that create-conversation
\* wrote into the conversation it created, both keeping their raw text
C11_Witness ==
    /\ \E m \in messages : m.conversation = 1 /\ m.original_content # <<>>
    /\ \E m \in messages : m.conversation \notin ConvIds /\ m.original_content # <<>>
    /\ \E m \in messages : m.original_content = <<>>

\* a send that was accepted: a chat_message frame whose message was saved,
\* or an HTTP send answered with 201; and the text it handed to the filter
AcceptedSend(op) ==
    \/ op.op = "receive" /\ op.result = "saved"
    \/ op.op = "http_send" /\ op.result = "201"

RawText(op) == IF op.op = "receive" THEN strip(op.frame.content.text) ELSE op.data.text

\* the row is what the claim says of a raw text and the filter's result for it
StoredAs(m, raw, result) ==
    /\ m.is_filtered = (result.violations # <<>>)
    /\ m.content = IF result.violations # <<>> THEN result.filtered_text ELSE raw
    /\ m.original_content = IF result.violations # <<>> THEN raw ELSE <<>>

\* C12: every accepted send stores one message; its is_filtered is true
\* exactly when the filter reported a violation for the raw text, its
\* content is the filtered text then and the raw text otherwise, and its
\* original_content is the raw text then and empty otherwise.
C12_StoredAsFiltered ==
    [][AcceptedSend(lastOp') =>
          /\ Cardinality(messages' \ messages) = 1
          /\ \A m \in messages' \ messages :
                StoredAs(m, RawText(lastOp'),
                         filter_ugc_content(RawText(lastOp'), bannedWords, TRUE))]_vars

\* after an accepted send there are a redacted row and a row stored as sent
C12_Witness ==
    /\ AcceptedSend(lastOp)
    /\ \E m \in messages : /\ m.is_filtered
                            /\ m.conversation = 1
                            /\ m.content # m.original_content
    /\ \E m \in messages : /\ ~m.is_filtered
                            /\ m.conversation = 1
                            /\ m.content # <<>>

PairCall(op) ==
    /\ op.op = "create_conversation"
    /\ op.result \in {"200", "201"}
    /\ op.data.activity_id = 0
    /\ Len(op.data.participant_ids) = 1
    /\ op.data.participant_ids[1] \in Users \ {op.user}

\* the direct conversations of exactly the two users
PairConversations(u, v) ==
    {cv \in AllConvIds : /\ conversations[cv].exists
                         /\ conversations[cv].conversation_type = "direct"
                         /\ conversations[cv].participants = {u, v}}

---------------------------------------------------------------------------
(* Claims about applications to an activity.                               *)

\* the step is the end of a respond call served by worker r
Responds(r) == lastOp'.op = "respond" /\ lastOp'.conn = r /\ req[r].pc = "respond"

\* C15: a respond call with action approve, for a participation whose
\* group_member_count is more than the spots left of the activity (as the
\* call read it: max_participants minus current_participants, floored at
\* 0), is answered with an error and changes neither current_participants
\* nor the participation's status; and what a call reads is the stored rows.
C15_InsufficientCapacityRefused ==
    [][\A r \in Requests :
          /\ (Responds(r) /\ req[r].action = "approve"
               /\ (IF req[r].activity.max_participants
                         - req[r].activity.current_participants > 0
                      THEN req[r].activity.max_participants
                             - req[r].activity.current_participants
                      ELSE 0) < req[r].participation.group_member_count)
              => /\ lastOp'.result = "400"
                 /\ activities' = activities
                 /\ participations' = participations
          /\ (lastOp'.op = "respond_read" /\ lastOp'.conn = r)
              => /\ req'[r].activity = activities[req'[r].activity_id]
                 /\ req'[r].participation \in participations]_vars

\* an approval has just been refused for want of capacity, of an activity
\* that has participants and spots left, and of one that is full
C15_Witness ==
    /\ lastOp.op = "respond"
    /\ lastOp.result = "400"
    /\ lastOp.data.action = "approve"
    /\ \E a \in ActivityIds :
          /\ activities[a].current_participants > 0
          /\ activities[a].current_participants < activities[a].max_participants

\* C16: a participation's status changes only from pending to approved or
\* rejected: once it is approved or rejected, no respond call changes its
\* status, and a respond call for it leaves the activity's counter alone.
C16_DecidedIsFinal ==
    [][\A p \in participations :
          p.status \in {"approved", "rejected"}
          => /\ p \in participations'
             /\ (lastOp'.op = "respond" /\ lastOp'.data.participation = p.id)
                => activities' = activities]_vars

\* C17: when an approval raises the current_participants of an activity
\* whose status is active to its max_participants, the stored status of the
\* activity is full when the approval has completed.
C17_FullWhenFilled ==
    [][\A a \in ActivityIds :
          (/\ lastOp'.op = "respond"
           /\ lastOp'.result = "200"
           /\ lastOp'.data.action = "approve"
           /\ lastOp'.data.activity_id = a
           /\ activities[a].status = "active"
           /\ activities'[a].current_participants # activities[a].current_participants
           /\ activities'[a].current_participants = activities'[a].max_participants)
          => activities'[a].status = "full"]_vars

---------------------------------------------------------------------------
(* Claims about the end of a connection.                                   *)

\* the connection is over: it disconnected, was refused, or its consumer
\* ended with an exception and the server closed the socket
Closed(c) == connState[c] \in {"closed", "crashed"}

\* C18: a connection that is closed is in no broadcast group, no event
\* is delivered to it from then on, and it stays closed.
C18_ClosedIsOut ==
    /\ [](\A c \in Conns : Closed(c) => \A cv \in ConvIds : c \notin groups[cv])
    /\ [][\A c \in Conns : Closed(c) => /\ delivered'[c] = delivered[c]
                                         /\ connState'[c] = connState[c]]_vars

---------------------------------------------------------------------------
(* Claims about the filter and the banned-word table.                      *)

\* C19: a filter call whose banned-word lookup fails returns the filtered
\* text and the violations that passes 1 to 4 (phone, email, social media,
\* profanity) give for the same text, which are those of a call with an
\* empty table.
C19_LookupFailureSkipsPass5 ==
    ~filterCall.store_up =>
        /\ filterCall.result.filtered_text =
              filter_ugc_content(filterCall.text, <<>>, TRUE).filtered_text
        /\ filterCall.result.violations =
              filter_ugc_content(filterCall.text, <<>>, TRUE).violations
        /\ filterCall.result.is_clean = (filterCall.result.violations = <<>>)

\* a call without the table, on a text with a handle and an active banned
\* word: the handle is redacted and the banned word is still there
C19_Witness ==
    /\ lastOp.op = "filter"
    /\ ~filterCall.store_up
    /\ \E i \in 1..Len(bannedWords) :
          /\ bannedWords[i].is_active
          /\ ~bannedWords[i].is_regex
          /\ contains_text(bannedWords[i].word, filterCall.text)
          /\ contains_text(bannedWords[i].word, filterCall.result.filtered_text)
    /\ filterCall.result.violations # <<>>

\* the entry is applied to a text: nothing of it is left in the text
NothingLeft(row, text) ==
    IF row.is_regex
      THEN re_compile(row.word).k # "error" => ~re_search(re_compile(row.word), text)
      ELSE ~contains_text(row.word, text)

\* C20: every filter call (that can read the table) applies exactly the
\* entries active at the time of the call: each banned_word violation it
\* reports is of an entry that is active now, and no active entry is left
\* unapplied on the text it returns.
C20_AppliesActiveEntries ==
    [][(lastOp'.op = "filter" /\ filterCall'.store_up) =>
          /\ \A k \in 1..Len(filterCall'.result.violations) :
                filterCall'.result.violations[k].type = "banned_word"
                => \E i \in 1..Len(bannedWords) :
                      /\ bannedWords[i].is_active
                      /\ filterCall'.result.violations[k].matches = <<bannedWords[i].word>>
          /\ \A i \in 1..Len(bannedWords) :
                bannedWords[i].is_active
                => NothingLeft(bannedWords[i], filterCall'.result.filtered_text)]_vars

\* ---------------------------------------------------------------------
\* The filter applied to its own output (utils.py 39-112 called with the
\* filtered_text of the call just made, the table not touched in between).
refilter ==
    /\ lastOp.op = "filter"
    /\ filterCall' = [text |-> filterCall.result.filtered_text,
                      store_up |-> filterCall.store_up,
                      result |-> filter_ugc_content(filterCall.result.filtered_text,
                                                    bannedWords, filterCall.store_up)]
    /\ lastOp' = OpData("refilter", Anonymous, 0, "-",
                        send_data(filterCall.result.filtered_text))
    /\ UNCHANGED <<dbVars, connVars, pc, pending, layerVars, nframes>>
    /\ UNCHANGED <<nextConvId, blocks, activityVars, extVars>>

\* Texts with a handle, with a banned word alone and with a banned word
\* run together with a profanity; words a moderator adds, one of them
\* part of the token the banned-word pass writes.
BadText == <<"b", "a", "d">>
BadDamnText == <<"b", "a", "d", "d", "a", "m", "n">>
RefilterTexts == {HiText, HandleText, BadText, BadDamnText}

TokenWord == <<"g", "i", "z", "l", "e", "n", "d", "i">>
RefilterWords == {[word |-> <<"h", "i">>, is_regex |-> FALSE],
                  [word |-> TokenWord, is_regex |-> FALSE]}

NextRefilter ==
    \/ \E text \in RefilterTexts, store_up \in BOOLEAN : call_filter(text, store_up)
    \/ refilter
    \/ \E w \in RefilterWords : add_banned_word(w.word, w.is_regex)
    \/ \E i \in 1..MaxBannedWords : delete_banned_word(i)
    \/ \E i \in 1..MaxBannedWords, is_active \in BOOLEAN : set_active(i, is_active)

SpecRefilter == Init /\ [][NextRefilter]_vars

\* C21: redaction is idempotent: applying the filter to the filtered text
\* it returned, with the same banned-word table, returns that text again.
C21_RedactionIdempotent ==
    [][lastOp'.op = "refilter"
          => filterCall'.result.filtered_text = filterCall.result.filtered_text]_vars

\* ---------------------------------------------------------------------
\* Sends of texts with a phone number: the number of the scenario, written
\* with a leading 0 and in groups of 4-3-2-2 digits, and the same number
\* with the country code and no spaces.
CallMeText == <<"c", "a", "l", "l", " ", "m", "e", " ", "a", "t", " ",
                "0", "5", "3", "2", " ", "1", "2", "3", " ", "4", "5", " ", "6", "7">>
CountryCodeText == <<"9", "0", "5", "3", "2", "1", "2", "3", "4", "5", "6", "7">>
PhoneTexts == {CallMeText, CountryCodeText}
PhoneFrames == {Frame("chat_message", Text(t), FALSE) : t \in PhoneTexts}

NextPhone ==
    \/ JWTAuthMiddleware("a", WriteToken, 1)
    \/ connect("a")
    \/ \E frame \in PhoneFrames : receive("a", frame)
    \/ handler_group_send("a")
    \/ dispatch("a")
    \/ \E text \in PhoneTexts : SendMessageView_post(2, 1, text)

SpecPhone == Init /\ [][NextPhone]_vars

\* C22: sending "call me at 0532 123 45 67" stores a message whose content
\* contains [telefon gizlendi], whose is_filtered is true and whose
\* original_content is the raw text.
C22_CallMeRedacted ==
    [][(AcceptedSend(lastOp') /\ RawText(lastOp') = CallMeText) =>
          /\ Cardinality(messages' \ messages) = 1
          /\ \A m \in messages' \ messages :
                /\ contains_text(PhoneToken, m.content)
                /\ m.is_filtered
                /\ m.original_content = CallMeText]_vars

\* ---------------------------------------------------------------------
\* accounts/views.py AccountDeleteView.delete, the password and the
\* confirmation being right: the account's block rows go, the row of the
\* user stays and is deactivated.
AccountDeleteView_delete(user) ==
    /\ is_authenticated(user)
    /\ blocks' = {b \in blocks : b[1] # user /\ b[2] # user}
    /\ inactive' = inactive \cup {user}
    /\ lastOp' = OpData("delete_account", user, 0, "200", NoData)
    /\ UNCHANGED <<dbVars, connVars, pc, pending, layerVars, nframes>>
    /\ UNCHANGED <<nextConvId, activityVars, filterCall, reports, nextReportId,
                   creating, activityText>>

\* moderation/views.py CreateReportView.post.  A ReportedContent row names
\* its target by the id in the one of reported_user, reported_activity and
\* reported_message that its report_type sets.
ReportTypes == {"user", "activity", "message"}

report_data(report_type, target) ==
    [NoData EXCEPT !.action = report_type, !.participation = target]

\* the lookup of the target: an active user, an activity, a message
target_found(report_type, target) ==
    CASE report_type = "user" -> target \in Users \ inactive
      [] report_type = "activity" -> target \in ActivityIds
      [] OTHER -> \E m \in messages : m.id = target

\* a message may be reported by a participant of its conversation
may_report(user, report_type, target) ==
    report_type = "message"
    => \E m \in messages : m.id = target /\ check_participant(m.conversation, user)

\* the caller's pending reports of this type against this target
pending_reports(user, report_type, target) ==
    {r \in reports : /\ r.reporter = user
                     /\ r.report_type = report_type
                     /\ r.target = target
                     /\ r.status = "pending"}

report_respond(user, report_type, target, status) ==
    /\ lastOp' = OpData("report", user, 0, status, report_data(report_type, target))
    /\ UNCHANGED <<reports, nextReportId>>

\* the view without the check for a pending report of the caller
report_create_always(user, report_type, target) ==
    IF report_type = "user" /\ target = user
      THEN report_respond(user, report_type, target, "400")
    ELSE IF ~target_found(report_type, target)
      THEN report_respond(user, report_type, target, "404")
    ELSE IF ~may_report(user, report_type, target)
      THEN report_respond(user, report_type, target, "403")
    ELSE /\ nextReportId <= MaxReports
         /\ reports' = reports \cup {[id |-> nextReportId, reporter |-> user,
                                       report_type |-> report_type, target |-> target,
                                       status |-> "pending"]}
         /\ nextReportId' = nextReportId + 1
         /\ lastOp' = OpData("report", user, 0, "201", report_data(report_type, target))

report_create(user, report_type, target) ==
    IF report_type = "user" /\ target = user
      THEN report_respond(user, report_type, target, "400")
    ELSE IF ~target_found(report_type, target)
      THEN report_respond(user, report_type, target, "404")
    ELSE IF ~may_report(user, report_type, target)
      THEN report_respond(user, report_type, target, "403")
    ELSE IF pending_reports(user, report_type, target) # {}
      THEN report_respond(user, report_type, target, "200")
    ELSE /\ nextReportId <= MaxReports
         /\ reports' = reports \cup {[id |-> nextReportId, reporter |-> user,
                                       report_type |-> report_type, target |-> target,
                                       status |-> "pending"]}
         /\ nextReportId' = nextReportId + 1
         /\ lastOp' = OpData("report", user, 0, "201", report_data(report_type, target))

CreateReportView_post(user, report_type, target) ==
    /\ is_authenticated(user)
    /\ report_create(user, report_type, target)
    /\ UNCHANGED <<dbVars, connVars, pc, pending, layerVars, nframes>>
    /\ UNCHANGED <<nextConvId, blocks, activityVars, filterCall, inactive, creating,
                   activityText>>

\* moderation/admin.py ReportedContentAdmin.mark_reviewed on one row
mark_reviewed(id) ==
    /\ \E r \in reports : r.id = id /\ r.status = "pending"
    /\ reports' = {IF r.id = id THEN [r EXCEPT !.status = "reviewed"] ELSE r : r \in reports}
    /\ lastOp' = OpData("mark_reviewed", Anonymous, 0, "-", NoData)
    /\ UNCHANGED <<dbVars, connVars, pc, pending, layerVars, nframes>>
    /\ UNCHANGED <<nextConvId, blocks, activityVars, filterCall, inactive, nextReportId,
                   creating, activityText>>

\* Blocks and reports: users 1 and 2 block and report user 3, an activity
\* and a message of conversation 1, user 3 reports and deletes the account,
\* a moderator marks reports reviewed.
NextReport ==
    \/ \E user \in {1, 2} : BlockUserView_post(user, 3)
    \/ BlockUserView_delete(1, 3)
    \/ \E user \in {2, 3}, report_type \in ReportTypes :
          CreateReportView_post(user, report_type, IF report_type = "user" THEN 3 ELSE 1)
    \/ \E id \in 1..MaxReports : mark_reviewed(id)
    \/ SendMessageView_post(1, 1, HiText)
    \/ AccountDeleteView_delete(3)

SpecReport == Init /\ [][NextReport]_vars

\* a block call against a user the caller has blocked, a report call against
\* a target the caller has a pending report of this type for
DuplicateBlock(op) ==
    op.op = "block" /\ <<op.user, op.data.participant_ids[1]>> \in blocks
DuplicateReport(op) ==
    op.op = "report"
    /\ pending_reports(op.user, op.data.action, op.data.participation) # {}

create_lookup(r, user, participant_ids, activity_id, initial_message) ==
    /\ is_authenticated(user)
    /\ creating[r].pc = "idle"
    /\ ~names_blocked(user, participant_ids)
    /\ \A existing \in existing_rows(user, participant_ids, activity_id) :
          ~reusable(existing)
    /\ creating' = [creating EXCEPT ![r] =
                       [pc |-> "create", user |-> user,
                        participant_ids |-> participant_ids,
                        activity_id |-> activity_id,
                        text |-> strip(initial_message)]]
    /\ lastOp' = OpData("create_lookup", user, 0, "-",
                        create_data(participant_ids, activity_id, strip(initial_message)))
    /\ UNCHANGED <<dbVars, connVars, pc, pending, layerVars, nframes>>
    /\ UNCHANGED <<nextConvId, blocks, activityVars, filterCall, inactive, reports,
                   nextReportId, activityText>>

\* the rest of the call: the new row, its participants, the initial message
create_commit(r) ==
    /\ creating[r].pc = "create"
    /\ create_conversation(creating[r].user, creating[r].participant_ids,
                           creating[r].activity_id, creating[r].text)
    /\ creating' = [creating EXCEPT ![r] = NoCreate]
    /\ UNCHANGED <<bannedWords, connVars, pc, pending, layerVars, nframes>>
    /\ UNCHANGED <<blocks, activityVars, filterCall, inactive, reports, nextReportId,
                   activityText>>

\* Users 1 and 3, who have no conversation, each ask for the direct
\* conversation with the other, with or without a first message; the calls
\* are served whole or by the two workers; user 3 blocks and unblocks.
RaceCalls == {<<1, <<3>>, 0, <<>>>>, <<3, <<1>>, 0, <<>>>>, <<3, <<1>>, 0, HiText>>}

NextRace ==
    \/ \E call \in RaceCalls :
          CreateConversationView_post(call[1], call[2], call[3], call[4])
    \/ \E r \in Requests, call \in RaceCalls :
          create_lookup(r, call[1], call[2], call[3], call[4])
    \/ \E r \in Requests : create_commit(r)
    \/ BlockUserView_post(3, 1)
    \/ BlockUserView_delete(3, 1)

SpecRace == Init /\ [][NextRace]_vars

\* C24: in every reachable state, concurrent create-conversation requests
\* of either user of a pair included, at most one direct conversation has
\* exactly that pair of users as its participants.
C24_AtMostOnePerPair ==
    \A u \in Users, v \in Users :
        u # v => Cardinality(PairConversations(u, v)) <= 1

\* ---------------------------------------------------------------------
\* the sum of group_member_count over a set of participations
RECURSIVE member_count(_)
member_count(ps) ==
    IF ps = {} THEN 0
    ELSE member_count(ps \ {CHOOSE p \in ps : TRUE})
         + (CHOOSE p \in ps : TRUE).group_member_count

approved(a) == {p \in participations : p.activity = a /\ p.status = "approved"}

\* C25: under any interleaving of respond calls for an activity whose
\* max_participants does not change, the sum of group_member_count over
\* its approved participations never exceeds max_participants.
C25_NeverOverbooked ==
    \A a \in ActivityIds : member_count(approved(a)) <= activities[a].max_participants

\* C27: after any sequence of apply, approve and reject operations (no
\* respond call under way), an activity's current_participants is the sum
\* of group_member_count over its approved participations.
C27_CounterIsApprovedSum ==
    (\A r \in Requests : req[r].pc = "idle")
    => \A a \in ActivityIds :
          activities[a].current_participants = member_count(approved(a))

\* ---------------------------------------------------------------------
\* activities/views.py ActivityViewSet create and update, and the change
\* form of ActivityAdmin.  The serializers' CharFields trim the texts.
text_data(activity_id, title) ==
    [NoData EXCEPT !.activity_id = activity_id, !.text = title]

is_clean(text) == filter_ugc_content(text, bannedWords, TRUE).is_clean

\* perform_create: both texts go through the filter; a violation in either
\* raises ValidationError, and otherwise the row is created
perform_create(user, title, description) ==
    IF ~is_clean(title) \/ ~is_clean(description)
      THEN /\ lastOp' = OpData("activity_create", user, 0, "400", text_data(0, title))
           /\ activityText' = activityText
      ELSE /\ Len(activityText) < MaxActivities
           /\ activityText' = Append(activityText,
                                     [title |-> title, description |-> description])
           /\ lastOp' = OpData("activity_create", user, 0, "201",
                               text_data(Len(activityText) + 1, title))

ActivityViewSet_create(user, title, description) ==
    /\ is_authenticated(user)
    /\ perform_create(user, strip(title), strip(description))
    /\ UNCHANGED <<dbVars, connVars, pc, pending, layerVars, nframes>>
    /\ UNCHANGED <<nextConvId, blocks, activityVars, filterCall, accountVars>>

\* the full save of an instance: Activity.save() sets the status and every
\* column is written
save_activity(activity_id) ==
    activities' = [activities EXCEPT ![activity_id].status =
                                        saved_status(activities[activity_id])]

\* update / partial_update with a title and a description: get_object,
\* ActivityUpdateSerializer, serializer.save(); there is no perform_update
ActivityViewSet_update(user, activity_id, title, description) ==
    /\ is_authenticated(user)
    /\ IF ~in_queryset(user, activity_id)
         THEN /\ lastOp' = OpData("activity_update", user, 0, "404",
                                  text_data(activity_id, strip(title)))
              /\ UNCHANGED <<activities, activityText>>
         ELSE /\ activityText' = [activityText EXCEPT ![activity_id] =
                     [title |-> strip(title), description |-> strip(description)]]
              /\ save_activity(activity_id)
              /\ lastOp' = OpData("activity_update", user, 0, "200",
                                  text_data(activity_id, strip(title)))
    /\ UNCHANGED <<dbVars, connVars, pc, pending, layerVars, nframes>>
    /\ UNCHANGED <<nextConvId, blocks, participations, nextParticipationId, req,
                   filterCall, accountVars>>

\* ActivityAdmin: the change form saved as it is
ActivityAdmin_save(activity_id) ==
    /\ save_activity(activity_id)
    /\ lastOp' = OpData("admin_save", Anonymous, 0, "-", text_data(activity_id, <<>>))
    /\ UNCHANGED <<dbVars, connVars, pc, pending, layerVars, nframes>>
    /\ UNCHANGED <<nextConvId, blocks, participations, nextParticipationId, req,
                   filterCall, extVars>>

\* One activity of user 1: user 2 applies and the creator approves, users 1
\* and 3 create and update activities with clean texts and with a handle in
\* the title or the description, an admin saves the activity, the clock ticks.
ActivityTexts == {<<HiText, HiText>>, <<HandleText, HiText>>, <<HiText, HandleText>>}

NextUpdate ==
    \/ \E group_member_count \in 1..MaxGroup : apply(2, 1, group_member_count)
    \/ respond_load("r1", 1, 1, 1, "approve")
    \/ respond_commit("r1")
    \/ \E t \in ActivityTexts : ActivityViewSet_create(3, t[1], t[2])
    \/ \E user \in {1, 3}, t \in ActivityTexts : ActivityViewSet_update(user, 1, t[1], t[2])
    \/ ActivityAdmin_save(1)
    \/ Tick

SpecUpdate == InitActivities /\ [][NextUpdate]_vars

\* a step that saves activity a: an update or an admin save, or the save
\* of the counter by an approval
Saves(a) ==
    /\ lastOp'.data.activity_id = a
    /\ \/ lastOp'.op = "activity_update" /\ lastOp'.result = "200"
       \/ lastOp'.op = "admin_save"
       \/ /\ lastOp'.op = "respond"
          /\ lastOp'.result = "200"
          /\ lastOp'.data.action = "approve"
          /\ activities'[a].current_participants # activities[a].current_participants

\* C26: every save of an activity whose status is active or full and whose
\* end time (start time, when it has no end time) has passed leaves it
\* with stored status completed; a save never changes a status that is
\* completed or cancelled.
C26_SaveCompletesPast ==
    [][\A a \in ActivityIds :
          Saves(a) =>
             /\ (activities[a].status \in {"active", "full"} /\ is_past(activities[a]))
                   => activities'[a].status = "completed"
             /\ activities[a].status \in {"completed", "cancelled"}
                   => activities'[a].status = activities[a].status]_vars

\* C30: every activity title and description stored by a create or an
\* update was reported clean by the filter at the time of the write, and a
\* rejected write stores nothing.
C30_StoredTextIsClean ==
    [][lastOp'.op \in {"activity_create", "activity_update"} =>
          /\ \A i \in 1..Len(activityText') :
                (i > Len(activityText) \/ activityText'[i] # activityText[i])
                => /\ is_clean(activityText'[i].title)
                   /\ is_clean(activityText'[i].description)
          /\ lastOp'.result = "400" => activityText' = activityText]_vars

\* ---------------------------------------------------------------------
\* The chat channel and account deletion: user 2 deletes the account; a
\* connection presents user 2's token for conversation 1 and sends; user 1
\* sends over HTTP.
DeletedToken == [kind |-> "valid", user_id |-> 2]

NextDeleted ==
    \/ AccountDeleteView_delete(2)
    \/ JWTAuthMiddleware("a", DeletedToken, 1)
    \/ connect("a")
    \/ disconnect("a")
    \/ \E frame \in WriteFrames : receive("a", frame)
    \/ handler_group_send("a")
    \/ dispatch("a")
    \/ SendMessageView_post(1, 1, HiText)

SpecDeleted == Init /\ [][NextDeleted]_vars

\* C28: a chat connection whose token belongs to an account that has been
\* deleted (is_active false) never reaches Joined.
C28_DeletedNeverJoins ==
    [][\A c \in Conns :
          (/\ connToken[c].kind = "valid"
           /\ connToken[c].user_id \in inactive
           /\ connState[c] # "joined")
          => connState'[c] # "joined"]_vars

\* ---------------------------------------------------------------------
\* messaging/views.py ConversationDetailView.retrieve: get_object over the
\* user's conversations, then the same update as the other mark-as-read
\* paths; the response carries the conversation.
ConversationDetailView_retrieve(user, cv) ==
    /\ is_authenticated(user)
    /\ IF ~check_participant(cv, user)
         THEN /\ lastOp' = Op("detail", "-", user, cv, NoFrame, "404", 0)
              /\ messages' = messages
         ELSE /\ messages' = mark_read_rows(cv, user)
              /\ lastOp' = Op("detail", "-", user, cv, NoFrame, "200",
                              Cardinality(unread_for(cv, user)))
    /\ UNCHANGED <<conversations, nextMessageId, bannedWords, now, connVars,
                   pc, pending, layerVars, nframes>>
    /\ UNCHANGED appVars

\* Conversation.unread_count_for(user), over a Message table
unread_count_for(table, cv, user) ==
    Cardinality({m \in table : m.conversation = cv /\ ~m.is_read /\ m.sender # user})

\* Unread counts: users 1 and 3 send to the direct conversation 1 (user 3
\* is no participant) and to the activity conversation 2 of all three
\* users; users 1 and 2 mark as read over HTTP and by opening the
\* conversation, user 1 also by a read frame on conversation 2.
UnreadSenders == {<<1, 1>>, <<1, 2>>, <<3, 2>>}

NextUnread ==
    \/ JWTAuthMiddleware("a", WriteToken, 2)
    \/ connect("a")
    \/ \E frame \in ReadFrames : receive("a", frame)
    \/ handler_group_send("a")
    \/ dispatch("a")
    \/ \E p \in UnreadSenders : SendMessageView_post(p[1], p[2], HiText)
    \/ \E user \in {1, 2}, cv \in ConvIds : MarkMessagesReadView_post(user, cv)
    \/ \E user \in {1, 2}, cv \in ConvIds : ConversationDetailView_retrieve(user, cv)

SpecUnread == Init /\ [][NextUnread]_vars

\* a mark-as-read that went through: HTTP mark-read, the conversation
\* detail, or a read frame
MarksRead(op) ==
    \/ op.op \in {"http_read", "detail"} /\ op.result = "200"
    \/ op.op = "receive" /\ op.frame.kind = "read" /\ op.result = "marked"

\* C29: a mark-as-read by participant u of a conversation leaves the
\* unread count of every other participant v of it unchanged, in direct
\* conversations and in activity conversations of more than two alike.
C29_OthersUnreadUnchanged ==
    [][MarksRead(lastOp') =>
          \A v \in conversations[lastOp'.conv].participants \ {lastOp'.user} :
              unread_count_for(messages', lastOp'.conv, v)
                 = unread_count_for(messages, lastOp'.conv, v)]_vars
====
